---- MODULE Spec2Model ----
(***************************************************************************)
(* Model of the browser controllers of IAction (src/static/app.js and      *)
(* src/static/admin.js).                                                    *)
(*                                                                          *)
(* This part models IActionApp's single-camera capture lifecycle and its   *)
(* one-second status loop.  The browser runs one handler step at a time    *)
(* (a step is the code between two awaits); asynchronous invocations that  *)
(* are suspended at an await are kept in bags of program positions, one    *)
(* bag per async method, because invocations of the same method are        *)
(* indistinguishable closures.                                              *)
(***************************************************************************)
EXTENDS Naturals, FiniteSets, Sequences, Bags, TLC

\* Bounds on the number of simultaneously suspended invocations.
MaxTicks == 2
MaxStart == 1
MaxStop == 2

VARIABLES
    ui,              \* IActionApp fields and the DOM properties its handlers write
    statusInterval,  \* TRUE while the setInterval timer of startStatusUpdates is armed
    initCheck,       \* position of init's checkCaptureStatus() call
    ticks,           \* bag of positions of suspended updateSensorValues() invocations
    starts,          \* bag of positions of suspended startCapture() invocations
    stops,           \* bag of positions of suspended stopCapture() invocations
    serverCapturing, \* the backend's is_capturing
    unhandledRejection, \* TRUE once an exception has escaped a status-loop tick
    last,            \* history: the handler step that produced the current state, for
                     \* the steps the properties below speak about ("other" otherwise),
                     \* and the /api/config outcome it consumed, if any
    storage,         \* localStorage item "additional_cameras" (shared by both pages)
    multi,           \* IActionApp.camerasConfig and the DOM of the multi-camera grid
    multiStarts,     \* bag of positions of suspended startMultiCapture() invocations
    multiStops,      \* bag of positions of suspended stopMultiCapture() invocations
    mlast,           \* history: the multi-camera step that produced the current state
                     \* and the camera list it posted, if any
    form,            \* AdminApp: values and section visibility of config-form
    fragments,       \* AdminApp: the camera fragments of additional-cameras
    calls,           \* bag of positions of suspended saveConfiguration(),
                     \* hotReload() and loadConfiguration() invocations
    alast,           \* history: the configuration step that produced the current
                     \* state, the answer it consumed and what hotReload returned
    tests,           \* AdminApp: badge, button and progress of each connectivity test
    tlast,           \* history: the test step that produced the current state and
                     \* the badge states it set, in order
    restart,         \* AdminApp: restartApplication's position, its button, the
                     \* clock of waitForServerBack and what the flow did
    clast,           \* history: the camera-fragment step that produced the current
                     \* state and what it read and posted
    detect,          \* IActionApp: the detections list, editDetectionId, the modal,
                     \* the backend's list and the requests in flight
    dlast,           \* history: the detection step that produced the current state
                     \* and the request it sent, if any
    logs,            \* logLevel of IActionApp and of AdminApp and the local storage items
                     \* LOG_LEVEL and ADMIN_LOG_LEVEL
    llast            \* history: the logging step that produced the current state, the
                     \* type of its message and whether it was emitted

\* The single-camera capture lifecycle and the status loop.
captureVars ==
    <<ui, statusInterval, initCheck, ticks, starts, stops, serverCapturing,
      unhandledRejection, last>>

\* The multi-camera grid of the same page.
multiVars == <<storage, multi, multiStarts, multiStops, mlast>>

\* The administration page.
adminVars == <<form, fragments, calls, alast, tests, tlast, restart, clast>>

\* The detections of the capture page.
detectVars == <<detect, dlast>>

\* The log levels of both pages.
logVars == <<logs, llast>>

\* What the capture lifecycle and the status loop never touch.
notCaptureVars == <<multiVars, adminVars, detectVars, logVars>>

vars == <<captureVars, multiVars, adminVars, detectVars, logVars>>

-----------------------------------------------------------------------------
(* Bags of program positions *)

Put(b, pc) == b (+) SetToBag({pc})
Take(b, pc) == b (-) SetToBag({pc})
Move(b, from, to) == Put(Take(b, from), to)
At(b, pc) == CopiesIn(pc, b)

-----------------------------------------------------------------------------
(* Outcomes of the requests, as the code distinguishes them *)

\* GET /api/metrics: 2xx with JSON, non-2xx, fetch throws, body is not JSON.
MetricsOutcomes == {"ok", "http_error", "network_error", "bad_json"}

\* GET /api/config: the fetch or response.json() throws (parsed = FALSE), or a
\* JSON body arrives in which capture_mode and rtsp_url may be missing ("").
ConfigBodies ==
    [parsed : {TRUE}, capture_mode : {"", "rtsp", "ha_polling"}, rtsp_url : {"", "rtsp://cam"}]
ConfigThrows == [parsed |-> FALSE, capture_mode |-> "", rtsp_url |-> ""]
ConfigOutcomes == {ConfigThrows} \cup ConfigBodies

\* History entries.
NoConfig == [parsed |-> FALSE, capture_mode |-> "-", rtsp_url |-> "-"]
Step(name) == [step |-> name, config |-> NoConfig]

-----------------------------------------------------------------------------
(* Synchronous helpers of IActionApp, as functions on the page state *)

updateCaptureControls_startOnly(u) ==
    [u EXCEPT !.startDisabled = u.isCapturing]

updateCaptureControls(u) ==
    IF u.isCapturing
    THEN [u EXCEPT !.startDisabled = TRUE, !.stopDisabled = FALSE]
    ELSE [u EXCEPT !.startDisabled = FALSE, !.stopDisabled = TRUE]

showCaptureLoading_noSpinner(u, show) ==
    IF show
    THEN [u EXCEPT !.startDisabled = TRUE]
    ELSE [u EXCEPT !.loading = FALSE,
                   !.startDisabled = IF ~u.isCapturing THEN FALSE ELSE @]

showCaptureLoading(u, show) ==
    IF show
    THEN [u EXCEPT !.startDisabled = TRUE, !.loading = TRUE]
    ELSE [u EXCEPT !.loading = FALSE,
                   !.startDisabled = IF ~u.isCapturing THEN FALSE ELSE @]

showToggleButton_startsStream(u) ==
    [u EXCEPT !.toggleDisplay = "block", !.noCaptureDisplay = "none",
              !.captureReadyDisplay = "none", !.videoSrc = "/video_feed",
              !.videoDisplay = "block", !.isVideoStreamVisible = TRUE]

showToggleButton(u) ==
    [u EXCEPT !.toggleDisplay = "block", !.noCaptureDisplay = "none",
              !.captureReadyDisplay = "block", !.isVideoStreamVisible = FALSE]

hideToggleButton(u) ==
    [u EXCEPT !.toggleDisplay = "none", !.noCaptureDisplay = "block",
              !.captureReadyDisplay = "none", !.isVideoStreamVisible = FALSE]

stopVideoStream_keepsSource(u) ==
    [u EXCEPT !.videoDisplay = "none",
              !.captureReadyDisplay = IF u.captureInProgress THEN "block" ELSE @,
              !.isVideoStreamVisible = FALSE]

stopVideoStream(u) ==
    [u EXCEPT !.videoDisplay = "none", !.videoSrc = "",
              !.captureReadyDisplay = IF u.captureInProgress THEN "block" ELSE @,
              !.isVideoStreamVisible = FALSE]

toggleVideoStream(u) ==
    IF ~u.captureInProgress THEN u
    ELSE IF u.isVideoStreamVisible
    THEN [u EXCEPT !.videoDisplay = "none", !.videoSrc = "",
                   !.captureReadyDisplay = "block", !.isVideoStreamVisible = FALSE]
    ELSE [u EXCEPT !.videoSrc = "/video_feed", !.videoDisplay = "block",
                   !.captureReadyDisplay = "none", !.isVideoStreamVisible = TRUE]

setCapturing_oneFlag(u, on) == [u EXCEPT !.isCapturing = on]

\* The two flag assignments that open each "capture is on/off" branch.
setCapturing(u, on) == [u EXCEPT !.isCapturing = on, !.captureInProgress = on]

\* Body of checkCaptureStatus once its response is parsed.
checkCaptureStatus(u, is_capturing) ==
    IF is_capturing
    THEN showToggleButton(updateCaptureControls(setCapturing(u, TRUE)))
    ELSE u

checkCaptureStatusUpdate_noEdge(u, is_capturing) ==
    IF is_capturing
    THEN showCaptureLoading(
             showToggleButton(updateCaptureControls(setCapturing(u, TRUE))), FALSE)
    ELSE showCaptureLoading(
             stopVideoStream(hideToggleButton(
                 updateCaptureControls(setCapturing(u, FALSE)))), FALSE)

\* Body of checkCaptureStatusUpdate once its response is parsed.
checkCaptureStatusUpdate(u, is_capturing) ==
    LET wasCapturing == u.captureInProgress IN
    IF is_capturing /\ ~wasCapturing
    THEN showCaptureLoading(
             showToggleButton(updateCaptureControls(setCapturing(u, TRUE))), FALSE)
    ELSE IF ~is_capturing /\ wasCapturing
    THEN showCaptureLoading(
             stopVideoStream(hideToggleButton(
                 updateCaptureControls(setCapturing(u, FALSE)))), FALSE)
    ELSE u

captureMode_noDefault(config) == config.capture_mode

\* startCapture's validation of the fetched configuration.
captureMode(config) == IF config.capture_mode # "" THEN config.capture_mode ELSE "rtsp"
startAllowed(config) == ~(captureMode(config) = "rtsp" /\ config.rtsp_url = "")

\* startCapture after an OK response, then its finally block.
startCaptureOk(u) ==
    showCaptureLoading(
        showToggleButton(updateCaptureControls(setCapturing(u, TRUE))), FALSE)

startCaptureFailed_resetsControls(u) ==
    showCaptureLoading(updateCaptureControls(setCapturing(u, FALSE)), FALSE)

\* startCapture after a non-OK response or an exception: only the finally block.
startCaptureFailed(u) == showCaptureLoading(u, FALSE)

stopCaptureOk_keepsStream(u) ==
    showCaptureLoading(
        showCaptureLoading(
            hideToggleButton(updateCaptureControls(setCapturing(u, FALSE))), FALSE), FALSE)

\* stopCapture after an OK response, then its finally block.
stopCaptureOk(u) ==
    showCaptureLoading(
        showCaptureLoading(
            stopVideoStream(hideToggleButton(
                updateCaptureControls(setCapturing(u, FALSE)))), FALSE), FALSE)

\* stopCapture after a non-OK response or an exception: only the finally block.
stopCaptureFailed(u) == showCaptureLoading(u, FALSE)

-----------------------------------------------------------------------------
(* Initial state: the constructor has run init(); its capture-status check  *)
(* is in flight and the status timer is armed.  The page starts with the    *)
(* stop button disabled and the stream toggle, video element and spinner    *)
(* hidden.                                                                   *)

InitUi ==
    [isCapturing |-> FALSE, captureInProgress |-> FALSE, isVideoStreamVisible |-> FALSE,
     startDisabled |-> FALSE, stopDisabled |-> TRUE, loading |-> FALSE,
     toggleDisplay |-> "none", noCaptureDisplay |-> "block",
     captureReadyDisplay |-> "none", videoDisplay |-> "none", videoSrc |-> ""]

-----------------------------------------------------------------------------
(* Multi-camera capture: stored cameras, descriptors and the cameras grid *)

\* Bound on the number of entries of the stored camera list.
MaxCameras == 2

\* A value that JavaScript leaves undefined (JSON.stringify omits it).
Undefined == "-"

\* Entries that AdminApp.saveCamerasConfiguration writes: the fragment's id
\* and, under the key "<id>_<attribute>", every field that was not empty.
\* Field cam_x stands for the key "<id>_x"; "" stands for a missing key.
StoredCameras ==
    { [id |-> "camera_1", cam_id |-> "", cam_name |-> "", cam_mode |-> "",
       cam_rtsp_url |-> "", cam_ha_entity |-> ""],
      [id |-> "camera_2", cam_id |-> "porch", cam_name |-> "Porch",
       cam_mode |-> "ha_polling", cam_rtsp_url |-> "rtsp://old",
       cam_ha_entity |-> "camera.porch"] }

RECURSIVE SeqsUpTo(_, _)
SeqsUpTo(S, n) ==
    IF n = 0 THEN {<<>>}
    ELSE LET shorter == SeqsUpTo(S, n - 1) IN
         shorter \cup {Append(q, x) : q \in {r \in shorter : Len(r) = n - 1}, x \in S}

\* localStorage.getItem("additional_cameras"): nothing (or the empty string),
\* a string that JSON.parse or the mapping rejects, or a JSON array of entries.
NoStorage == [state |-> "absent", cameras |-> <<>>]
BadStorage == [state |-> "invalid", cameras |-> <<>>]
ArrayStorage(cameras) == [state |-> "array", cameras |-> cameras]
StorageValues ==
    {NoStorage, BadStorage} \cup {ArrayStorage(c) : c \in SeqsUpTo(StoredCameras, MaxCameras)}

\* The descriptor that loadCamerasConfiguration builds from one stored entry.
cameraDescriptor(camera) ==
    LET cameraId == IF camera.cam_id # "" THEN camera.cam_id ELSE camera.id
        mode == IF camera.cam_mode # "" THEN camera.cam_mode ELSE "rtsp"
        name == IF camera.cam_name # "" THEN camera.cam_name ELSE "Caméra " \o cameraId
        field(v) == IF v = "" THEN Undefined ELSE v
    IN  [id |-> cameraId, name |-> name, mode |-> mode,
         rtsp_url |-> IF mode = "rtsp" THEN field(camera.cam_rtsp_url) ELSE Undefined,
         ha_entity |-> IF mode = "ha_polling" THEN field(camera.cam_ha_entity) ELSE Undefined]

testCameraDescriptor_keyAsId(camera) ==
    LET mode == IF camera.cam_mode # "" THEN camera.cam_mode ELSE "rtsp"
        name == IF camera.cam_name # "" THEN camera.cam_name ELSE "Caméra " \o camera.id
        field(v) == IF v = "" THEN Undefined ELSE v
    IN  [id |-> camera.id, name |-> name, mode |-> mode,
         rtsp_url |-> IF mode = "rtsp" THEN field(camera.cam_rtsp_url) ELSE Undefined,
         ha_entity |-> IF mode = "ha_polling" THEN field(camera.cam_ha_entity) ELSE Undefined]

\* The descriptor AdminApp.testCameras builds from one entry of the list that
\* saveCamerasConfiguration returned.
testCameraDescriptor(camera) ==
    LET cameraId == IF camera.cam_id # "" THEN camera.cam_id ELSE camera.id
        mode == IF camera.cam_mode # "" THEN camera.cam_mode ELSE "rtsp"
        name == IF camera.cam_name # "" THEN camera.cam_name ELSE "Caméra " \o cameraId
        field(v) == IF v = "" THEN Undefined ELSE v
    IN  [id |-> cameraId, name |-> name, mode |-> mode,
         rtsp_url |-> IF mode = "rtsp" THEN field(camera.cam_rtsp_url) ELSE Undefined,
         ha_entity |-> IF mode = "ha_polling" THEN field(camera.cam_ha_entity) ELSE Undefined]

\* camerasToTest of AdminApp.testCameras.
camerasToTest(cameras) == [i \in DOMAIN cameras |-> testCameraDescriptor(cameras[i])]

\* IActionApp.loadCamerasConfiguration: the new value of this.camerasConfig.
loadCamerasConfiguration(stored) ==
    IF stored.state = "array"
    THEN [i \in 1..Len(stored.cameras) |-> cameraDescriptor(stored.cameras[i])]
    ELSE <<>>

\* The descriptor startMultiCapture pushes first.
MainCamera ==
    [id |-> "main", name |-> "Caméra Principale", mode |-> "rtsp",
     rtsp_url |-> Undefined, ha_entity |-> Undefined]

allCameras_mainLast(camerasConfig) == camerasConfig \o <<MainCamera>>

\* The list startMultiCapture posts to /api/admin/cameras/start_multiple.
allCameras(camerasConfig) == <<MainCamera>> \o camerasConfig

\* The elements of result.results the backend may report for one posted
\* camera: started or not, a failure of the main camera possibly with a
\* message ("" stands for a missing message).
CameraResults(camera) ==
    { [camera_id |-> camera.id, success |-> ok, message |-> ""] : ok \in BOOLEAN }
    \cup (IF camera.id = "main"
          THEN {[camera_id |-> "main", success |-> FALSE, message |-> "RTSP injoignable"]}
          ELSE {})

\* result.results: the backend reports on the posted cameras in the order
\* they were posted and may leave some of them out.
RECURSIVE ResultsFor(_)
ResultsFor(cameras) ==
    IF cameras = <<>> THEN {<<>>}
    ELSE LET rest == ResultsFor(Tail(cameras)) IN
         rest \cup {<<r>> \o q : r \in CameraResults(Head(cameras)), q \in rest}

\* A parsed answer of start_multiple to the posted list.  results may be
\* missing (hasResults FALSE), in which case result.results is undefined.
StartMultiAnswers(cameras) ==
    [success : {TRUE}, hasResults : {TRUE}, results : ResultsFor(cameras)]
    \cup [success : BOOLEAN, hasResults : {FALSE}, results : {<<>>}]

\* A suspended startMultiCapture: it awaits the answer to its posted list.
Posted(cameras) == [at |-> "post", cameras |-> cameras]

updateMainCameraStatus(m, isActive, message) ==
    IF isActive
    THEN [m EXCEPT !.mainBadge = "Active", !.mainToggleDisplay = "",
                   !.mainNoCaptureDisplay = "none", !.mainCaptureReadyDisplay = "block"]
    ELSE [m EXCEPT !.mainBadge = IF message # "" THEN message ELSE "Arrêtée",
                   !.mainToggleDisplay = "none",
                   !.mainNoCaptureDisplay = "block", !.mainCaptureReadyDisplay = "none"]

\* The cell addCameraToGrid appends: its toggle is disabled after a failure.
addCameraToGrid(m, cameraResult) ==
    [m EXCEPT !.grid = Append(@, [camera_id |-> cameraResult.camera_id,
                                  toggleDisabled |-> ~cameraResult.success])]

RECURSIVE forEachResult(_, _)
forEachResult(m, results) ==
    IF results = <<>> THEN m
    ELSE LET result == Head(results) IN
         forEachResult(
             IF result.camera_id = "main"
             THEN updateMainCameraStatus(m, result.success, result.message)
             ELSE addCameraToGrid(m, result),
             Tail(results))

setupCamerasGrid_keepsCells(m, results) == forEachResult(m, results)

\* Every element with a data-camera-id is removed from the grid, then the
\* results are handled in order.
setupCamerasGrid(m, results) == forEachResult([m EXCEPT !.grid = <<>>], results)

resetCamerasGrid_keepsStream(m) ==
    updateMainCameraStatus([m EXCEPT !.grid = <<>>], FALSE, "Arrêtée")

resetCamerasGrid(m) ==
    [updateMainCameraStatus([m EXCEPT !.grid = <<>>], FALSE, "Arrêtée")
        EXCEPT !.mainStreamDisplay = "none", !.mainStreamSrc = "", !.activeCameras = {}]

toggleMainVideoStream(m) ==
    IF m.mainStreamDisplay = "none"
    THEN [m EXCEPT !.mainStreamSrc = "/video_feed/main", !.mainStreamDisplay = "block",
                   !.mainCaptureReadyDisplay = "none"]
    ELSE [m EXCEPT !.mainStreamDisplay = "none", !.mainStreamSrc = "",
                   !.mainCaptureReadyDisplay = "block"]

\* The page as loaded: no descriptors, an empty grid, the main camera stopped,
\* start-multi enabled and stop-multi disabled.
InitMulti ==
    [camerasConfig |-> <<>>, activeCameras |-> {}, grid |-> <<>>,
     mainBadge |-> "Arrêtée", mainToggleDisplay |-> "none",
     mainNoCaptureDisplay |-> "block", mainCaptureReadyDisplay |-> "none",
     mainStreamDisplay |-> "none", mainStreamSrc |-> "",
     startDisabled |-> FALSE, stopDisabled |-> TRUE]

\* History entries of the multi-camera steps.
MultiStep(name, cameras) == [step |-> name, cameras |-> cameras]

\* The multi-camera grid left alone.
MultiParked ==
    /\ storage = NoStorage
    /\ multi = InitMulti
    /\ multiStarts = EmptyBag
    /\ multiStops = EmptyBag
    /\ mlast = MultiStep("other", <<>>)

-----------------------------------------------------------------------------
(* AdminApp: the configuration form and its validation *)

\* Bound on the number of simultaneously suspended AdminApp invocations.
MaxCalls == 1

\* Strings whose characters the code inspects are sequences of characters.
Digits == <<"0", "1", "2", "3", "4", "5", "6", "7", "8", "9">>
IsDigit(c) == \E d \in DOMAIN Digits : Digits[d] = c
DigitValue(c) == (CHOOSE d \in DOMAIN Digits : Digits[d] = c) - 1

\* String.prototype.trim.
RECURSIVE trimStart(_)
trimStart(s) == IF s # <<>> /\ Head(s) = " " THEN trimStart(Tail(s)) ELSE s
RECURSIVE trimEnd(_)
trimEnd(s) ==
    IF s # <<>> /\ s[Len(s)] = " " THEN trimEnd(SubSeq(s, 1, Len(s) - 1)) ELSE s
trim(s) == trimEnd(trimStart(s))

replaceComma_all(s) == [i \in DOMAIN s |-> IF s[i] = "," THEN "." ELSE s[i]]

\* raw.replace(",", "."): a string pattern replaces the first match only.
replaceComma(s) ==
    IF \E i \in DOMAIN s : s[i] = ","
    THEN LET first == CHOOSE i \in DOMAIN s :
                          s[i] = "," /\ \A j \in 1..(i - 1) : s[j] # ","
         IN  [s EXCEPT ![first] = "."]
    ELSE s

RECURSIVE DigitsValue(_)
DigitsValue(s) ==
    IF s = <<>> THEN 0 ELSE DigitsValue(SubSeq(s, 1, Len(s) - 1)) * 10 + DigitValue(s[Len(s)])

\* Number(string) for unsigned decimal literals, in tenths: blank is 0,
\* digits with at most one "." are a number, anything else is NaN.  The
\* strings of the model carry at most one decimal digit.
Number(s) ==
    LET t == trim(s)
        dots == {i \in DOMAIN t : t[i] = "."}
        int == IF dots = {} THEN t ELSE SubSeq(t, 1, (CHOOSE i \in dots : TRUE) - 1)
        frac == IF dots = {} THEN <<>> ELSE SubSeq(t, (CHOOSE i \in dots : TRUE) + 1, Len(t))
    IN  IF t = <<>> THEN [nan |-> FALSE, tenths |-> 0]
        ELSE IF /\ Cardinality(dots) <= 1
                /\ \A i \in DOMAIN t : IsDigit(t[i]) \/ t[i] = "."
                /\ Len(int) + Len(frac) > 0
                /\ Len(frac) <= 1
        THEN [nan |-> FALSE, tenths |-> DigitsValue(int) * 10 + DigitsValue(frac)]
        ELSE [nan |-> TRUE, tenths |-> 0]

\* isValidUrl: new URL(string) accepts exactly the absolute URLs.
UrlTexts == {"", "http://ollama:11434", "ollama"}
isValidUrl(string) == string = "http://ollama:11434"

\* What the administrator may type into a number field.
NumberTexts ==
    { <<>>, <<"2", ".", "0">>, <<"1", ",", "5">>, <<"6", "1">>, <<"a", "b">> }

\* An input of the form as validateField reads it: its type, value, min and
\* max attributes ("" when the attribute is missing) and whether it is
\* rendered (offsetParent is not null).
Field(type, value, min, max, visible) ==
    [type |-> type, value |-> value, min |-> min, max |-> max, visible |-> visible]

validateField_checksHidden(field) ==
    IF field.type = "url" /\ field.value # "" /\ ~isValidUrl(field.value)
    THEN [ok |-> FALSE, value |-> field.value]
    ELSE [ok |-> TRUE, value |-> field.value]

\* validateField: its verdict and the value it leaves in the field.
validateField(field) ==
    IF ~field.visible THEN [ok |-> TRUE, value |-> field.value]
    ELSE IF field.type = "url" /\ field.value # "" /\ ~isValidUrl(field.value)
    THEN [ok |-> FALSE, value |-> field.value]
    ELSE IF field.type = "number" /\ field.value # <<>>
    THEN LET raw == replaceComma(trim(field.value))
             val == Number(raw)
             hasMin == field.min # <<>>
             hasMax == field.max # <<>>
         IN  [ok |-> /\ ~val.nan
                     /\ ~(hasMin /\ val.tenths < Number(field.min).tenths)
                     /\ ~(hasMax /\ val.tenths > Number(field.max).tenths),
              value |-> raw]
    ELSE [ok |-> TRUE, value |-> field.value]

ApiModes == {"openai", "lmstudio", "ollama"}
CaptureModes == {"rtsp", "ha_polling"}

toggleApiSections(f, mode) ==
    [f EXCEPT !.apiSection = IF mode \in ApiModes THEN mode ELSE "none"]

toggleCaptureSections(f, mode) ==
    [f EXCEPT !.captureSection = IF mode = "ha_polling" THEN "ha_polling" ELSE "rtsp"]

\* The inputs of config-form.  The static fields live in the page's HTML;
\* the form of the model has the fields the code names (AI_API_MODE,
\* OPENAI_API_KEY, OLLAMA_MODEL, OLLAMA_URL, MQTT_BROKER, CAPTURE_MODE,
\* default_rtsp_url) and one number field inside ha-polling-config, with the
\* min and max of the camera fragments' interval inputs.
FormFields(f) ==
    [AI_API_MODE |-> Field("select-one", f.AI_API_MODE, "", "", TRUE),
     OPENAI_API_KEY |-> Field("password", f.OPENAI_API_KEY, "", "", f.apiSection = "openai"),
     OLLAMA_MODEL |-> Field("text", f.OLLAMA_MODEL, "", "", f.apiSection = "ollama"),
     OLLAMA_URL |-> Field("text", f.OLLAMA_URL, "", "", f.apiSection = "ollama"),
     MQTT_BROKER |-> Field("text", f.MQTT_BROKER, "", "", TRUE),
     CAPTURE_MODE |-> Field("select-one", f.CAPTURE_MODE, "", "", TRUE),
     DEFAULT_RTSP_URL |-> Field("url", f.DEFAULT_RTSP_URL, "", "", f.captureSection = "rtsp"),
     HA_POLL_INTERVAL |-> Field("number", f.HA_POLL_INTERVAL, <<"0", ".", "1">>, <<"6", "0">>,
                                f.captureSection = "ha_polling")]

FieldNames ==
    {"AI_API_MODE", "OPENAI_API_KEY", "OLLAMA_MODEL", "OLLAMA_URL", "MQTT_BROKER",
     "CAPTURE_MODE", "DEFAULT_RTSP_URL", "HA_POLL_INTERVAL"}

\* validateField applied to the named input: the form with the value it leaves.
validated(f, name) == [f EXCEPT ![name] = validateField(FormFields(f)[name]).value]

RECURSIVE validatedAll(_, _)
validatedAll(f, names) ==
    IF names = {} THEN f
    ELSE LET name == CHOOSE n \in names : TRUE IN
         validatedAll(validated(f, name), names \ {name})

\* validateConfiguration: every input is validated; in Ollama mode a
\* non-empty OLLAMA_URL must be a URL; the missing-value checks only warn.
validateConfiguration(f) ==
    /\ \A name \in FieldNames : validateField(FormFields(f)[name]).ok
    /\ ~(f.AI_API_MODE = "ollama" /\ f.OLLAMA_URL # "" /\ ~isValidUrl(f.OLLAMA_URL))

\* populateForm for a configuration that has every key of the form.
populateForm(f, config) ==
    validatedAll([name \in DOMAIN f |->
                     IF name \in FieldNames THEN config[name] ELSE f[name]], FieldNames)

\* loadConfiguration once its response is parsed: sections, then values.
loadConfigurationDone(f, config) ==
    populateForm(
        toggleCaptureSections(
            toggleApiSections(f, IF config.AI_API_MODE # "" THEN config.AI_API_MODE
                                 ELSE "lmstudio"),
            IF config.CAPTURE_MODE # "" THEN config.CAPTURE_MODE ELSE "rtsp"),
        config)

\* Configurations the backend may hold.
BackendConfigs ==
    { [AI_API_MODE |-> "lmstudio", OPENAI_API_KEY |-> "", OLLAMA_MODEL |-> "",
       OLLAMA_URL |-> "", MQTT_BROKER |-> "broker", CAPTURE_MODE |-> "rtsp",
       DEFAULT_RTSP_URL |-> "", HA_POLL_INTERVAL |-> <<>>],
      [AI_API_MODE |-> "ollama", OPENAI_API_KEY |-> "", OLLAMA_MODEL |-> "llava",
       OLLAMA_URL |-> "http://ollama:11434", MQTT_BROKER |-> "", CAPTURE_MODE |-> "ha_polling",
       DEFAULT_RTSP_URL |-> "", HA_POLL_INTERVAL |-> <<"2", ".", "0">>],
      [AI_API_MODE |-> "openai", OPENAI_API_KEY |-> "sk", OLLAMA_MODEL |-> "",
       OLLAMA_URL |-> "ollama", MQTT_BROKER |-> "broker", CAPTURE_MODE |-> "rtsp",
       DEFAULT_RTSP_URL |-> "http://ollama:11434", HA_POLL_INTERVAL |-> <<>>] }

\* The form as the page's HTML renders it, before the first load.
InitForm ==
    [AI_API_MODE |-> "lmstudio", OPENAI_API_KEY |-> "", OLLAMA_MODEL |-> "",
     OLLAMA_URL |-> "", MQTT_BROKER |-> "", CAPTURE_MODE |-> "rtsp",
     DEFAULT_RTSP_URL |-> "", HA_POLL_INTERVAL |-> <<>>,
     apiSection |-> "lmstudio", captureSection |-> "rtsp"]

\* What the administrator may type into each text input.
FieldTexts ==
    [OPENAI_API_KEY |-> {"", "sk"}, OLLAMA_MODEL |-> {"", "llava"},
     OLLAMA_URL |-> UrlTexts, MQTT_BROKER |-> {"", "broker"},
     DEFAULT_RTSP_URL |-> UrlTexts, HA_POLL_INTERVAL |-> NumberTexts]

\* A camera fragment as a freshly added one: addCameraConfig's defaults.
NewFragment(n) ==
    LET cameraId == "camera_" \o ToString(n) IN
    [id |-> cameraId, cam_id |-> cameraId, cam_name |-> "Caméra " \o ToString(n),
     cam_mode |-> "rtsp", cam_rtsp_url |-> "", cam_ha_entity |-> ""]

addCameraConfig_noCheck(frags) == Append(frags, NewFragment(Len(frags) + 1))

\* addCameraConfig: the id is taken from the number of fragments; nothing is
\* added when a fragment with that id exists.
addCameraConfig(frags) ==
    LET fragment == NewFragment(Len(frags) + 1) IN
    IF \E i \in DOMAIN frags : frags[i].id = fragment.id THEN frags
    ELSE Append(frags, fragment)

\* populateCameraFields: each key of the stored entry is written to the first
\* input of the document that carries that name, if there is one.
populateCameraFields(frags, camera) ==
    [i \in DOMAIN frags |->
        IF frags[i].id = camera.id /\ \A j \in 1..(i - 1) : frags[j].id # camera.id
        THEN [key \in DOMAIN frags[i] |->
                 IF key # "id" /\ camera[key] # "" THEN camera[key] ELSE frags[i][key]]
        ELSE frags[i]]

RECURSIVE forEachCamera(_, _)
forEachCamera(frags, cameras) ==
    IF cameras = <<>> THEN frags
    ELSE forEachCamera(populateCameraFields(addCameraConfig(frags), Head(cameras)),
                       Tail(cameras))

\* AdminApp.loadCamerasConfiguration: the fragments are cleared and rebuilt
\* from the stored list; a value that does not parse leaves none.
loadCameraFragments(stored) ==
    IF stored.state = "array" THEN forEachCamera(<<>>, stored.cameras) ELSE <<>>

\* AdminApp.saveCamerasConfiguration: one entry per fragment, in document
\* order, holding the id and every field that is not empty.
saveCamerasConfiguration(frags) == ArrayStorage(frags)

\* removeCameraConfig: the first element carrying the id is detached and the
\* remaining fragments are saved; without such an element nothing happens.
removeCameraConfig_keepsStorage(frags, stored, id) ==
    LET found == {i \in DOMAIN frags : frags[i].id = id} IN
    IF found = {} THEN [fragments |-> frags, storage |-> stored]
    ELSE LET first == CHOOSE i \in found : \A j \in found : i <= j
             rest == SubSeq(frags, 1, first - 1) \o SubSeq(frags, first + 1, Len(frags))
         IN  [fragments |-> rest, storage |-> stored]

removeCameraConfig(frags, stored, id) ==
    LET found == {i \in DOMAIN frags : frags[i].id = id} IN
    IF found = {} THEN [fragments |-> frags, storage |-> stored]
    ELSE LET first == CHOOSE i \in found : \A j \in found : i <= j
             rest == SubSeq(frags, 1, first - 1) \o SubSeq(frags, first + 1, Len(frags))
         IN  [fragments |-> rest, storage |-> saveCamerasConfiguration(rest)]

\* The ids addCameraConfig can give with up to MaxCameras fragments.
CameraIds == {"camera_" \o ToString(n) : n \in 1..MaxCameras}

\* What the administrator may put into the name and mode inputs of a fragment.
CameraTexts == [cam_name |-> {"", "Porch"}, cam_mode |-> {"rtsp", "ha_polling"}]

\* Whether an element carries the data-camera-id.
HasFragment(frags, id) == \E i \in DOMAIN frags : frags[i].id = id

\* parseFloat(string) for unsigned decimal literals, in tenths: leading blanks
\* are skipped and the longest prefix made of digits, then at most one "."
\* and digits, is the number; without a digit in it the result is NaN.
parseFloat(s) ==
    LET t == trimStart(s)
        intLen == CHOOSE n \in 0..Len(t) :
                      /\ \A i \in 1..n : IsDigit(t[i])
                      /\ n < Len(t) => ~IsDigit(t[n + 1])
        rest == SubSeq(t, intLen + 1, Len(t))
        frac == IF rest # <<>> /\ Head(rest) = "." THEN Tail(rest) ELSE <<>>
        fracLen == CHOOSE n \in 0..Len(frac) :
                       /\ \A i \in 1..n : IsDigit(frac[i])
                       /\ n < Len(frac) => ~IsDigit(frac[n + 1])
    IN  IF intLen + fracLen = 0 THEN [nan |-> TRUE, tenths |-> 0]
        ELSE [nan |-> FALSE,
              tenths |-> DigitsValue(SubSeq(t, 1, intLen)) * 10
                         + (IF fracLen = 0 THEN 0 ELSE DigitValue(frac[1]))]

\* What the administrator may leave in an analysis-interval input.
IntervalTexts ==
    { <<>>, <<"2", ".", "0">>, <<"0", ".", "1">>, <<"1", ",", "5">>, <<"0", ",", "5">>,
      <<"6", "0", ",", "5">>, <<"6", "1">>, <<"a", "b">> }

\* The bounds applyCameraInterval tests, 0.1 and 60, in tenths.
intervalAccepted_exclusive(value) == ~value.nan /\ value.tenths > 1 /\ value.tenths < 600

intervalAccepted(value) == ~(value.nan \/ value.tenths < 1 \/ value.tenths > 600)

\* Outcomes of a POST as the callers distinguish them.
PostOutcomes == {"success", "refused", "http_error", "bad_json", "network_error"}

\* Outcomes of a request sent with fetchWithTimeout.
TimedOutcomes == PostOutcomes \cup {"timeout"}

\* History entries of the configuration steps.
AdminStep(name, answer, returned, warned) ==
    [step |-> name,
     answer |-> IF answer \in {"-", "success"} THEN answer ELSE "failure",
     returned |-> returned, warned |-> warned]
OtherAdminStep == AdminStep("other", "-", "-", FALSE)

\* The configuration form left alone on a page without camera fragments.
ConfigParked ==
    /\ form = InitForm
    /\ fragments = <<>>
    /\ calls = EmptyBag
    /\ alast = OtherAdminStep

\* The capture lifecycle as the page loads.
CaptureInit ==
    /\ ui = InitUi
    /\ statusInterval = TRUE
    /\ initCheck = "status"
    /\ ticks = EmptyBag
    /\ starts = EmptyBag
    /\ stops = EmptyBag
    /\ serverCapturing \in BOOLEAN
    /\ unhandledRejection = FALSE
    /\ last = Step("other")

-----------------------------------------------------------------------------
(* AdminApp: status badges of the connectivity tests *)

Tests == {"ai", "mqtt", "rtsp", "cameras"}

\* The CSS classes setBadge knows, by state.
BadgeClasses ==
    [loading |-> "bg-warning", ok |-> "bg-success", error |-> "bg-danger",
     info |-> "bg-info", idle |-> "bg-secondary"]

setBadge_warningAsError(state) ==
    LET known == IF state \in DOMAIN BadgeClasses THEN state ELSE "error" IN
    [state |-> known, class |-> BadgeClasses[known]]

\* setBadge: the state it was given and the class it leaves on the badge.
setBadge(state) ==
    [state |-> state,
     class |-> IF state \in DOMAIN BadgeClasses THEN BadgeClasses[state]
               ELSE "bg-secondary"]

\* Answers of the test endpoints, as each test distinguishes them; "exception"
\* is a timeout of fetchWithTimeout, a network error or a body that is not
\* JSON, "refused" a body with success = false.
TestOutcomes ==
    [ai |-> {"success", "refused", "exception"},
     mqtt |-> {"connected", "disconnected", "no_status", "refused", "exception"},
     rtsp |-> {"online", "not_configured", "offline", "other_status", "refused",
               "exception"}]

\* The badge state each test sets for an answer.
testBadge(test, outcome) ==
    IF outcome \in {"success", "connected", "online"} THEN "ok"
    ELSE IF outcome = "not_configured" THEN "info"
    ELSE "error"

\* Answers of cameras/test_multiple for total cameras: success = true with
\* the number of results that succeeded, or without results, success = false,
\* or an exception.
CamerasAnswers(total) ==
    [kind : {"results"}, ok : 0..total, total : {total}]
    \cup [kind : {"no_results", "refused", "exception"}, ok : {0}, total : {total}]

\* The badge state testCameras sets for an answer.
testCamerasBadge(answer) ==
    IF answer.kind = "results"
    THEN IF answer.ok = answer.total THEN "ok" ELSE "warning"
    ELSE "error"

\* Every badge idle, every test button enabled, no test running.
InitTests ==
    [t \in Tests |-> [badge |-> setBadge("idle"), disabled |-> FALSE, waiting |-> FALSE]]

\* History entries of the test steps: the test and the badge states it set.
TestStep(name, test, states) == [step |-> name, test |-> test, states |-> states]

TestsParked ==
    /\ tests = InitTests
    /\ tlast = TestStep("other", "-", <<>>)

-----------------------------------------------------------------------------
(* AdminApp: restart and the wait for the server *)

\* waitForServerBack(60), its 2000 ms attempt timeout and its 1000 ms pause,
\* in seconds.
MaxSeconds == 60
AttemptTimeout == 2
RetryDelay == 1

\* The second, counted from the start of the wait, from which the health
\* endpoint answers ok; NeverBack when it never does.
NeverBack == MaxSeconds + MaxSeconds
BackAtValues == {0, NeverBack} \cup ((MaxSeconds - AttemptTimeout)..(MaxSeconds + AttemptTimeout))

keepWaiting_inclusive(elapsed) == elapsed <= MaxSeconds

\* The loop condition of waitForServerBack.
keepWaiting(elapsed) == elapsed < MaxSeconds

\* No restart asked: the button enabled, nothing sent.
InitRestart ==
    [pc |-> "idle", step |-> "other", disabled |-> FALSE, backAt |-> NeverBack,
     elapsed |-> 0, attempts |-> 0, sent |-> 0, postOk |-> FALSE, healthOk |-> FALSE,
     reloaded |-> FALSE, warned |-> FALSE]

RestartParked == restart = InitRestart

-----------------------------------------------------------------------------
(* AdminApp: steps on the camera fragments *)

\* History entries of the camera-fragment steps: the step, the camera id it
\* was called with, the text of the interval input it read and the interval
\* it posted, in tenths of a second.
CameraStep(name, id, text, interval) ==
    [step |-> name, id |-> id, text |-> text, interval |-> interval]
OtherCameraStep == CameraStep("other", "-", <<>>, 0)

FormsParked == clast = OtherCameraStep

-----------------------------------------------------------------------------
(* IActionApp: the detections and their modal *)

\* Bound on the number of detections ever created.
MaxDetections == 1

\* No detection anywhere, the modal closed, create mode, nothing in flight.
\* editDetectionId is 0 for null; backend is the list the server holds.
InitDetect ==
    [detections |-> <<>>, backend |-> <<>>, editDetectionId |-> 0, modalOpen |-> FALSE,
     nextId |-> 1, refreshFailed |-> FALSE, requests |-> {}]

\* History entries of the detection steps: the step, whether it sent a
\* request, and the method, the detection id of the URL (0 for none) and the
\* body of that request.
DetectStep(name, called, method, id, body) ==
    [step |-> name, called |-> called, method |-> method, id |-> id, body |-> body]
Missing == <<"undefined">>
NoBody == [name |-> Missing, phrase |-> Missing, webhook_url |-> Missing]
OtherDetectStep == DetectStep("other", FALSE, "-", 0, NoBody)

DetectParked ==
    /\ detect = InitDetect
    /\ dlast = OtherDetectStep

\* Bound on the number of detection requests in flight at once.
MaxRequests == 2

\* What the user may leave in the inputs of the modal, as sequences of
\* characters; a URL scheme with its "://" counts as one character.
NameTexts == { <<" ">>, <<"a", " ">> }
PhraseTexts == { <<>>, <<" ", "p">> }
WebhookTexts == { <<>>, <<"http://">>, <<"http://", "x">>, <<"x", " ">> }

\* webhookUrl.match(/^https?:\/\/.+/)
matchesWebhook_schemeOnly(webhookUrl) ==
    webhookUrl # <<>> /\ Head(webhookUrl) \in {"http://", "https://"}

matchesWebhook(webhookUrl) ==
    Len(webhookUrl) >= 2 /\ Head(webhookUrl) \in {"http://", "https://"}

\* The validation of saveDetection over the trimmed values: TRUE when it
\* reaches the fetch.  typeof webhookUrl === "undefined" asks for a value that
\* is Missing, which the trimmed value of an input never is.
saveDetectionValid(editDetectionId, name, phrase, webhookUrl) ==
    /\ IF editDetectionId = 0
       THEN ~(name = <<>> \/ phrase = <<>>)
       ELSE ~(name = <<>> /\ phrase = <<>> /\ webhookUrl = Missing)
    /\ ~(webhookUrl # <<>> /\ ~matchesWebhook(webhookUrl))

\* requestBody of saveDetection; Missing marks a key that is not set.
requestBody(editDetectionId, name, phrase, webhookUrl) ==
    [name |-> IF editDetectionId = 0 \/ name # <<>> THEN name ELSE Missing,
     phrase |-> IF editDetectionId = 0 \/ phrase # <<>> THEN phrase ELSE Missing,
     webhook_url |-> webhookUrl]

\* The backend's list after a request it accepted.
created(backend, id, body) ==
    Append(backend, [id |-> id, name |-> body.name, phrase |-> body.phrase,
                     webhook_url |-> body.webhook_url])

patched(backend, id, body) ==
    [i \in DOMAIN backend |->
        IF backend[i].id # id THEN backend[i]
        ELSE [key \in DOMAIN backend[i] |->
                 IF key # "id" /\ body[key] # Missing THEN body[key] ELSE backend[i][key]]]

deleted(backend, id) == SelectSeq(backend, LAMBDA d : d.id # id)

HasDetection(list, id) == \E i \in DOMAIN list : list[i].id = id

\* A request in flight: its kind, whether its answer will be OK, the list a
\* GET will deliver, and whether saveDetection awaits it.
Request(kind, ok, snapshot, awaited) ==
    [kind |-> kind, ok |-> ok, snapshot |-> snapshot, awaited |-> awaited]

\* loadDetections up to its fetch: the backend serves the list it holds now.
loadDetections(d, awaited) ==
    [d EXCEPT !.requests = @ \cup {Request("get", TRUE, d.backend, awaited)}]

-----------------------------------------------------------------------------
(* Log levels of both controllers *)

\* this.logLevels, the same table in IActionApp and AdminApp.
logLevels == [error |-> 0, warning |-> 1, info |-> 2, success |-> 2, debug |-> 3]

\* Lower-case names that the object literal inherits from Object.prototype:
\* the in operator finds them, and indexing yields an object, not a number.
InheritedKeys == {"constructor", "__proto__"}

\* String.prototype.toLowerCase over the texts used here.
UpperCaseTexts == [DEBUG |-> "debug", Error |-> "error", Success |-> "success"]
toLowerCase(s) == IF s \in DOMAIN UpperCaseTexts THEN UpperCaseTexts[s] ELSE s

\* key in this.logLevels
inLogLevels(key) == key \in DOMAIN logLevels \cup InheritedKeys

\* this.logLevels[key] ?? 2, as a number or as a value that compares as NaN.
levelOrInfo(key) ==
    IF key \in DOMAIN logLevels THEN [nan |-> FALSE, rank |-> logLevels[key]]
    ELSE IF key \in InheritedKeys THEN [nan |-> TRUE, rank |-> 0]
    ELSE [nan |-> FALSE, rank |-> logLevels.info]

\* shouldLog(type), the same code in both controllers.
shouldLog(logLevel, type) ==
    LET lvl == levelOrInfo(toLowerCase(IF type = "" THEN "info" ELSE type))
        current == levelOrInfo(logLevel)
    IN  ~lvl.nan /\ ~current.nan /\ lvl.rank <= current.rank

\* initLogLevelFromUrl over the log parameter of the page's URL (Undefined
\* without one) and the stored item (Undefined for null): the new logLevel
\* and the stored item.  When local storage throws, the catch sets "info".
initLogLevelFromUrl(param, stored, throws) ==
    IF throws THEN [logLevel |-> "info", stored |-> stored]
    ELSE LET lvl == toLowerCase(IF param = Undefined THEN "" ELSE param)
             written == IF param # Undefined /\ inLogLevels(lvl) THEN lvl ELSE stored
             read == toLowerCase(IF written \in {Undefined, ""} THEN "info" ELSE written)
         IN  [logLevel |-> IF inLogLevels(read) THEN read ELSE "info", stored |-> written]

\* Values of the log parameter, options of log-level-select, and types of
\* messages.
LogParams == {Undefined, "", "debug", "DEBUG", "Error", "success", "verbose", "constructor"}
SelectValues == {"", "error", "warning", "info", "debug"}
LogTypes == {"", "error", "Error", "warning", "info", "Success", "debug", "trace"}

\* Both pages as constructed with nothing stored.
InitLogs ==
    [appLogLevel |-> "info", LOG_LEVEL |-> Undefined,
     adminLogLevel |-> "info", ADMIN_LOG_LEVEL |-> Undefined]

\* History entries of the logging steps: the step, the controller, the type
\* of the message and whether it reached the console.
LogStep(name, controller, type, emitted) ==
    [step |-> name, controller |-> controller, type |-> type, emitted |-> emitted]
OtherLogStep == LogStep("other", "-", "-", FALSE)

LogParked ==
    /\ logs = InitLogs
    /\ llast = OtherLogStep

\* AdminApp left alone.
AdminParked == ConfigParked /\ TestsParked /\ RestartParked /\ FormsParked

Init == CaptureInit /\ MultiParked /\ AdminParked /\ DetectParked /\ LogParked

-----------------------------------------------------------------------------
(* The backend *)

\* Capture starts or stops on the backend for a reason outside this page.
BackendChange ==
    /\ serverCapturing' = ~serverCapturing
    /\ last' = Step("other")
    /\ UNCHANGED <<ui, statusInterval, initCheck, ticks, starts, stops, unhandledRejection>>
    /\ UNCHANGED notCaptureVars

\* The backend answers a capture-status request with its current state.
statusReply(capturing) == IF capturing THEN "status_true" ELSE "status_false"

BackendAnswerInitCheck ==
    /\ initCheck = "status"
    /\ initCheck' = statusReply(serverCapturing)
    /\ last' = Step("other")
    /\ UNCHANGED <<ui, statusInterval, ticks, starts, stops, serverCapturing, unhandledRejection>>
    /\ UNCHANGED notCaptureVars

BackendAnswerStatus ==
    /\ At(ticks, "status") > 0
    /\ ticks' = Move(ticks, "status", statusReply(serverCapturing))
    /\ last' = Step("other")
    /\ UNCHANGED <<ui, statusInterval, initCheck, starts, stops, serverCapturing, unhandledRejection>>
    /\ UNCHANGED notCaptureVars

\* The backend executes a start request and answers OK.
BackendStart ==
    /\ At(starts, "start") > 0
    /\ starts' = Move(starts, "start", "start_ok")
    /\ serverCapturing' = TRUE
    /\ last' = Step("other")
    /\ UNCHANGED <<ui, statusInterval, initCheck, ticks, stops, unhandledRejection>>
    /\ UNCHANGED notCaptureVars

\* The backend executes a stop request and answers OK.
BackendStop ==
    /\ At(stops, "stop") > 0
    /\ stops' = Move(stops, "stop", "stop_ok")
    /\ serverCapturing' = FALSE
    /\ last' = Step("other")
    /\ UNCHANGED <<ui, statusInterval, initCheck, ticks, starts, unhandledRejection>>
    /\ UNCHANGED notCaptureVars

-----------------------------------------------------------------------------
(* init's checkCaptureStatus *)

InitCheckDone ==
    /\ initCheck \in {"status_true", "status_false"}
    /\ ui' = checkCaptureStatus(ui, initCheck = "status_true")
    /\ initCheck' = "done"
    /\ last' = Step("other")
    /\ UNCHANGED <<statusInterval, ticks, starts, stops, serverCapturing, unhandledRejection>>
    /\ UNCHANGED notCaptureVars

InitCheckFailed ==
    /\ initCheck = "status"
    /\ initCheck' = "done"
    /\ last' = Step("other")
    /\ UNCHANGED <<ui, statusInterval, ticks, starts, stops, serverCapturing, unhandledRejection>>
    /\ UNCHANGED notCaptureVars

-----------------------------------------------------------------------------
(* The status loop *)

\* The interval callback: updateSensorValues() runs up to its first await.
Tick ==
    /\ statusInterval
    /\ BagCardinality(ticks) < MaxTicks
    /\ ticks' = Put(ticks, "metrics")
    /\ last' = Step(IF last.step = "poll_failed" THEN "tick_after_failure" ELSE "other")
    /\ UNCHANGED <<ui, statusInterval, initCheck, starts, stops, serverCapturing, unhandledRejection>>
    /\ UNCHANGED notCaptureVars

\* The awaits of updateSensorValues that throw: fetch on a network error,
\* response.json() on a body that is not JSON.
metricsThrows(outcome) == outcome \in {"network_error", "bad_json"}

\* The exceptions the try block of updateSensorValues covers.
tickCatches_fetchOnly == {"network_error"}

tickCatches == {"network_error", "bad_json"}

\* Position of updateSensorValues after the metrics fetch: a 2xx answer with
\* JSON and a non-2xx answer both go on to the capture-status check; an
\* exception skips it (and ends the invocation, caught or not).
afterMetrics(outcome) == IF metricsThrows(outcome) THEN "done" ELSE "status"

Resume(b, from, to) == IF to = "done" THEN Take(b, from) ELSE Move(b, from, to)

MetricsDone(outcome) ==
    /\ At(ticks, "metrics") > 0
    /\ ticks' = Resume(ticks, "metrics", afterMetrics(outcome))
    /\ unhandledRejection' =
           (unhandledRejection \/ (metricsThrows(outcome) /\ outcome \notin tickCatches))
    /\ last' = Step(IF outcome = "ok" THEN "other" ELSE "poll_failed")
    /\ UNCHANGED <<ui, statusInterval, initCheck, starts, stops, serverCapturing>>
    /\ UNCHANGED notCaptureVars

\* checkCaptureStatusUpdate with a parsed 2xx response.
StatusDone(is_capturing) ==
    /\ At(ticks, statusReply(is_capturing)) > 0
    /\ ticks' = Take(ticks, statusReply(is_capturing))
    /\ ui' = checkCaptureStatusUpdate(ui, is_capturing)
    /\ last' = Step(IF is_capturing = ui.captureInProgress THEN "poll_same"
                    ELSE IF is_capturing THEN "poll_on" ELSE "poll_off")
    /\ UNCHANGED <<statusInterval, initCheck, starts, stops, serverCapturing, unhandledRejection>>
    /\ UNCHANGED notCaptureVars

\* checkCaptureStatusUpdate with a non-2xx response or an exception.
StatusFailed ==
    /\ At(ticks, "status") > 0
    /\ ticks' = Take(ticks, "status")
    /\ last' = Step("poll_failed")
    /\ UNCHANGED <<ui, statusInterval, initCheck, starts, stops, serverCapturing, unhandledRejection>>
    /\ UNCHANGED notCaptureVars

-----------------------------------------------------------------------------
(* startCapture *)

\* Click on #start-capture: startCapture() runs up to the config fetch.
StartClick ==
    /\ ~ui.startDisabled
    /\ BagCardinality(starts) < MaxStart
    /\ starts' = Put(starts, "config")
    /\ last' = Step("other")
    /\ UNCHANGED <<ui, statusInterval, initCheck, ticks, stops, serverCapturing, unhandledRejection>>
    /\ UNCHANGED notCaptureVars

\* The config fetch settles: early return, or spinner and POST /api/start_capture.
ConfigDone(outcome) ==
    /\ At(starts, "config") > 0
    /\ IF outcome.parsed /\ startAllowed(outcome)
       THEN /\ starts' = Move(starts, "config", "start")
            /\ ui' = showCaptureLoading(ui, TRUE)
            /\ last' = [step |-> "start_request", config |-> outcome]
       ELSE /\ starts' = Take(starts, "config")
            /\ ui' = ui
            /\ last' = [step |-> IF outcome.parsed THEN "start_refused" ELSE "config_failed",
                         config |-> outcome]
    /\ UNCHANGED <<statusInterval, initCheck, ticks, stops, serverCapturing, unhandledRejection>>
    /\ UNCHANGED notCaptureVars

\* The OK response of the start request is handled.
StartDone ==
    /\ At(starts, "start_ok") > 0
    /\ starts' = Take(starts, "start_ok")
    /\ ui' = startCaptureOk(ui)
    /\ last' = Step("start_ok")
    /\ UNCHANGED <<statusInterval, initCheck, ticks, stops, serverCapturing, unhandledRejection>>
    /\ UNCHANGED notCaptureVars

\* The start request fails: a non-OK response, or an exception of fetch or of
\* response.json() (which runs before response.ok is read, so a 2xx answer
\* with an unparsable body ends here too).
StartFailed ==
    /\ At(starts, "start") > 0
    /\ starts' = Take(starts, "start")
    /\ ui' = startCaptureFailed(ui)
    /\ last' = Step("start_failed")
    /\ UNCHANGED <<statusInterval, initCheck, ticks, stops, serverCapturing, unhandledRejection>>
    /\ UNCHANGED notCaptureVars

-----------------------------------------------------------------------------
(* stopCapture *)

\* Click on #stop-capture: stopCapture() runs up to POST /api/stop_capture.
StopClick ==
    /\ ~ui.stopDisabled
    /\ BagCardinality(stops) < MaxStop
    /\ stops' = Put(stops, "stop")
    /\ last' = Step("other")
    /\ UNCHANGED <<ui, statusInterval, initCheck, ticks, starts, serverCapturing, unhandledRejection>>
    /\ UNCHANGED notCaptureVars

\* The OK response of the stop request is handled.
StopDone ==
    /\ At(stops, "stop_ok") > 0
    /\ stops' = Take(stops, "stop_ok")
    /\ ui' = stopCaptureOk(ui)
    /\ last' = Step("stop_ok")
    /\ UNCHANGED <<statusInterval, initCheck, ticks, starts, serverCapturing, unhandledRejection>>
    /\ UNCHANGED notCaptureVars

\* The stop request fails: a non-OK response or an exception.
StopFailed ==
    /\ At(stops, "stop") > 0
    /\ stops' = Take(stops, "stop")
    /\ ui' = stopCaptureFailed(ui)
    /\ last' = Step("stop_failed")
    /\ UNCHANGED <<statusInterval, initCheck, ticks, starts, serverCapturing, unhandledRejection>>
    /\ UNCHANGED notCaptureVars

-----------------------------------------------------------------------------
(* The stream toggle *)

\* Click on #toggle-video-stream, possible while the button is displayed.
ToggleClick ==
    /\ ui.toggleDisplay = "block"
    /\ ui' = toggleVideoStream(ui)
    /\ last' = Step("other")
    /\ UNCHANGED <<statusInterval, initCheck, ticks, starts, stops, serverCapturing, unhandledRejection>>
    /\ UNCHANGED notCaptureVars

-----------------------------------------------------------------------------

Next ==
    \/ BackendChange
    \/ BackendAnswerInitCheck
    \/ BackendAnswerStatus
    \/ BackendStart
    \/ BackendStop
    \/ InitCheckDone
    \/ InitCheckFailed
    \/ Tick
    \/ \E outcome \in MetricsOutcomes : MetricsDone(outcome)
    \/ \E is_capturing \in BOOLEAN : StatusDone(is_capturing)
    \/ StatusFailed
    \/ StartClick
    \/ \E outcome \in ConfigOutcomes : ConfigDone(outcome)
    \/ StartDone
    \/ StartFailed
    \/ StopClick
    \/ StopDone
    \/ StopFailed
    \/ ToggleClick

Spec == Init /\ [][Next]_vars

\* Scheduling: the timer keeps firing, a handler whose response has arrived
\* runs, and the backend keeps settling the status loop's GET requests.
\* Whether the backend ever answers a start or stop request is left open.
LiveSpec ==
    /\ Spec
    /\ WF_vars(Tick)
    /\ WF_vars(\E outcome \in MetricsOutcomes : MetricsDone(outcome))
    /\ WF_vars(BackendAnswerStatus)
    /\ WF_vars(\E is_capturing \in BOOLEAN : StatusDone(is_capturing))
    /\ WF_vars(BackendAnswerInitCheck)
    /\ WF_vars(InitCheckDone)
    /\ WF_vars(StartDone)
    /\ WF_vars(StopDone)

\* Scheduling under which the status loop keeps succeeding: as LiveSpec, and
\* again and again a metrics request is answered 2xx with JSON and a
\* capture-status request is answered by the backend.
PollSpec ==
    /\ LiveSpec
    /\ SF_vars(MetricsDone("ok"))
    /\ SF_vars(BackendAnswerStatus)


-----------------------------------------------------------------------------
(* Multi-camera capture: the handlers *)

\* The capture lifecycle and the detections left alone.
CaptureParked == CaptureInit /\ serverCapturing = FALSE /\ DetectParked /\ LogParked

\* The stored camera list is whatever the administration page left there.
MultiInit ==
    /\ CaptureParked
    /\ AdminParked
    /\ storage \in StorageValues
    /\ multi = InitMulti
    /\ multiStarts = EmptyBag
    /\ multiStops = EmptyBag
    /\ mlast = MultiStep("other", <<>>)

\* Click on start-multi-capture: the descriptors are reloaded, the button is
\* disabled and the camera list is posted.
StartMultiClick ==
    /\ ~multi.startDisabled
    /\ BagCardinality(multiStarts) < MaxStart
    /\ LET camerasConfig == loadCamerasConfiguration(storage) IN
         /\ multi' = [multi EXCEPT !.camerasConfig = camerasConfig, !.startDisabled = TRUE]
         /\ multiStarts' = Put(multiStarts, Posted(allCameras(camerasConfig)))
         /\ mlast' = MultiStep("start_posted", allCameras(camerasConfig))
    /\ UNCHANGED <<storage, multiStops>>
    /\ UNCHANGED <<captureVars, detectVars, logVars, adminVars>>

\* startMultiCapture from the parsed answer to its finally block.  Without
\* result.results, setupCamerasGrid throws after it removed the old cells.
startMultiCaptureAnswered(m, answer) ==
    LET handled ==
            IF answer.success /\ answer.hasResults
            THEN [setupCamerasGrid(m, answer.results)
                     EXCEPT !.startDisabled = TRUE, !.stopDisabled = FALSE]
            ELSE IF answer.success
            THEN [m EXCEPT !.grid = <<>>]
            ELSE m
    IN  [handled EXCEPT !.startDisabled = FALSE]

\* startMultiCapture when fetch or response.json() throws: catch and finally.
startMultiCaptureFailed(m) == [m EXCEPT !.startDisabled = FALSE]

StartMultiAnswer(post, answer) ==
    /\ At(multiStarts, post) > 0
    /\ multiStarts' = Take(multiStarts, post)
    /\ multi' = startMultiCaptureAnswered(multi, answer)
    /\ mlast' = MultiStep(IF answer.success /\ answer.hasResults
                          THEN "start_ok" ELSE "start_refused", <<>>)
    /\ UNCHANGED <<storage, multiStops>>
    /\ UNCHANGED <<captureVars, detectVars, logVars, adminVars>>

\* A suspended startMultiCapture resumes with a parsed answer.
StartMultiDone ==
    \E post \in BagToSet(multiStarts) :
        \E answer \in StartMultiAnswers(post.cameras) : StartMultiAnswer(post, answer)

StartMultiFailed ==
    /\ \E post \in BagToSet(multiStarts) : multiStarts' = Take(multiStarts, post)
    /\ multi' = startMultiCaptureFailed(multi)
    /\ mlast' = MultiStep("start_failed", <<>>)
    /\ UNCHANGED <<storage, multiStops>>
    /\ UNCHANGED <<captureVars, detectVars, logVars, adminVars>>

\* Click on stop-multi-capture: the button is disabled and one POST
\* /api/stop_capture with an empty object is sent.
StopMultiClick ==
    /\ ~multi.stopDisabled
    /\ BagCardinality(multiStops) < MaxStop
    /\ multi' = [multi EXCEPT !.stopDisabled = TRUE]
    /\ multiStops' = Put(multiStops, "post")
    /\ mlast' = MultiStep("stop_posted", <<>>)
    /\ UNCHANGED <<storage, multiStarts>>
    /\ UNCHANGED <<captureVars, detectVars, logVars, adminVars>>

\* The finally block of stopMultiCapture.
stopMultiCaptureFinally(m) ==
    [m EXCEPT !.startDisabled = FALSE, !.stopDisabled = TRUE]

\* stopMultiCapture after a 2xx answer with success = true.
stopMultiCaptureOk(m) ==
    stopMultiCaptureFinally(
        [resetCamerasGrid(m) EXCEPT !.startDisabled = FALSE, !.stopDisabled = TRUE])

\* stopMultiCapture after a non-2xx answer, a network error, a body that is
\* not JSON, or success = false.
stopMultiCaptureFailed(m) == stopMultiCaptureFinally(m)

StopMultiDone ==
    /\ At(multiStops, "post") > 0
    /\ multiStops' = Take(multiStops, "post")
    /\ multi' = stopMultiCaptureOk(multi)
    /\ mlast' = MultiStep("stop_ok", <<>>)
    /\ UNCHANGED <<storage, multiStarts>>
    /\ UNCHANGED <<captureVars, detectVars, logVars, adminVars>>

StopMultiFailed ==
    /\ At(multiStops, "post") > 0
    /\ multiStops' = Take(multiStops, "post")
    /\ multi' = stopMultiCaptureFailed(multi)
    /\ mlast' = MultiStep("stop_failed", <<>>)
    /\ UNCHANGED <<storage, multiStarts>>
    /\ UNCHANGED <<captureVars, detectVars, logVars, adminVars>>

\* Click on the main camera's eye button, displayed while the camera is active.
ToggleMainClick ==
    /\ multi.mainToggleDisplay # "none"
    /\ multi' = toggleMainVideoStream(multi)
    /\ mlast' = MultiStep("other", <<>>)
    /\ UNCHANGED <<storage, multiStarts, multiStops>>
    /\ UNCHANGED <<captureVars, detectVars, logVars, adminVars>>

MultiNext ==
    \/ StartMultiClick
    \/ StartMultiDone
    \/ StartMultiFailed
    \/ StopMultiClick
    \/ StopMultiDone
    \/ StopMultiFailed
    \/ ToggleMainClick

MultiSpec == MultiInit /\ [][MultiNext]_vars

-----------------------------------------------------------------------------
(* AdminApp: saving and reloading the configuration *)

\* The page loads: the constructor's loadConfiguration awaits its GET.  The
\* stored camera list holds no camera (missing, unparsable or "[]").
ConfigInit ==
    /\ CaptureParked
    /\ MultiParked
    /\ form = InitForm
    /\ fragments = <<>>
    /\ calls = SetToBag({"init_config"})
    /\ alast = OtherAdminStep
    /\ TestsParked
    /\ FormsParked
    /\ RestartParked

ConfigFrame ==
    UNCHANGED <<captureVars, detectVars, logVars, multi, multiStarts, multiStops, mlast, tests, tlast,
                restart, clast>>

\* The administrator types into a rendered text input; its input listener
\* validates the field.
EditField(name, text) ==
    /\ FormFields(form)[name].visible
    /\ form[name] # text
    /\ form' = validated([form EXCEPT ![name] = text], name)
    /\ alast' = OtherAdminStep
    /\ UNCHANGED <<storage, fragments, calls>>
    /\ ConfigFrame

\* The administrator picks another AI mode: input and change listeners.
ChangeApiMode(mode) ==
    /\ form.AI_API_MODE # mode
    /\ form' = toggleApiSections([form EXCEPT !.AI_API_MODE = mode], mode)
    /\ alast' = OtherAdminStep
    /\ UNCHANGED <<storage, fragments, calls>>
    /\ ConfigFrame

ChangeCaptureMode(mode) ==
    /\ form.CAPTURE_MODE # mode
    /\ form' = toggleCaptureSections([form EXCEPT !.CAPTURE_MODE = mode], mode)
    /\ alast' = OtherAdminStep
    /\ UNCHANGED <<storage, fragments, calls>>
    /\ ConfigFrame

\* Submit of config-form: saveConfiguration up to its POST, or to its return
\* when the validation fails.  The camera list is stored before validating.
SubmitForm ==
    /\ BagCardinality(calls) < MaxCalls
    /\ storage' = saveCamerasConfiguration(fragments)
    /\ form' = validatedAll(form, FieldNames)
    /\ IF validateConfiguration(form)
       THEN /\ calls' = Put(calls, "save_post")
            /\ alast' = AdminStep("save_posted", "-", "-", FALSE)
       ELSE /\ calls' = calls
            /\ alast' = AdminStep("save_rejected", "-", "-", FALSE)
    /\ UNCHANGED fragments
    /\ ConfigFrame

\* saveConfiguration resumes from its POST: hotReload is called, and sends
\* its POST /api/admin/reload, only after a 2xx answer with success = true.
SavePostDone(outcome) ==
    /\ At(calls, "save_post") > 0
    /\ calls' = Resume(calls, "save_post", IF outcome = "success" THEN "save_reload" ELSE "done")
    /\ alast' = AdminStep("save_answered", outcome, "-", FALSE)
    /\ UNCHANGED <<storage, form, fragments>>
    /\ ConfigFrame

\* Click on reload-config: hotReload sends its POST.
ReloadClick ==
    /\ BagCardinality(calls) < MaxCalls
    /\ calls' = Put(calls, "reload")
    /\ alast' = OtherAdminStep
    /\ UNCHANGED <<storage, form, fragments>>
    /\ ConfigFrame

\* Where hotReload awaits loadConfiguration, by where it awaited its POST.
reloadThenConfig == [reload |-> "reload_config", save_reload |-> "save_config"]

hotReloadAnswered_alwaysLoads(pos, outcome) == reloadThenConfig[pos]

\* hotReload resumes from its POST (5 s timeout): after a 2xx answer with
\* success = true it calls loadConfiguration, which sends its GET; otherwise
\* it returns false.
hotReloadAnswered(pos, outcome) ==
    IF outcome = "success" THEN reloadThenConfig[pos] ELSE "done"

\* saveConfiguration logs the manual-restart warning when hotReload returned
\* false; the reload button ignores the returned value.
saveWarns(pos, returned) == pos \in {"save_reload", "save_config"} /\ returned = "false"

ReloadAnswered(pos, outcome) ==
    /\ At(calls, pos) > 0
    /\ LET next == hotReloadAnswered(pos, outcome) IN
         /\ calls' = Resume(calls, pos, next)
         /\ alast' = IF next = "done"
                     THEN AdminStep("reload_returned", outcome, "false",
                                    saveWarns(pos, "false"))
                     ELSE AdminStep("reload_loading", outcome, "-", FALSE)
    /\ UNCHANGED <<storage, form, fragments>>
    /\ ConfigFrame

\* loadConfiguration resumes with a parsed configuration: sections, values,
\* then the camera fragments are rebuilt from the stored list.  When
\* hotReload awaited it, hotReload returns true.
ConfigLoaded(pos, config) ==
    /\ At(calls, pos) > 0
    /\ calls' = Take(calls, pos)
    /\ form' = loadConfigurationDone(form, config)
    /\ fragments' = loadCameraFragments(storage)
    /\ alast' = IF pos = "init_config" THEN OtherAdminStep
                ELSE AdminStep("reload_returned", "-", "true", saveWarns(pos, "true"))
    /\ UNCHANGED storage
    /\ ConfigFrame

\* loadConfiguration catches a failed GET itself, so hotReload still returns
\* true.
ConfigFailed(pos) ==
    /\ At(calls, pos) > 0
    /\ calls' = Take(calls, pos)
    /\ alast' = IF pos = "init_config" THEN OtherAdminStep
                ELSE AdminStep("reload_returned", "-", "true", saveWarns(pos, "true"))
    /\ UNCHANGED <<storage, form, fragments>>
    /\ ConfigFrame

ReloadPositions == {"reload", "save_reload"}
ConfigPositions == {"init_config", "reload_config", "save_config"}

ConfigNext ==
    \/ \E name \in DOMAIN FieldTexts : \E text \in FieldTexts[name] : EditField(name, text)
    \/ \E mode \in ApiModes : ChangeApiMode(mode)
    \/ \E mode \in CaptureModes : ChangeCaptureMode(mode)
    \/ SubmitForm
    \/ \E outcome \in PostOutcomes : SavePostDone(outcome)
    \/ ReloadClick
    \/ \E pos \in ReloadPositions : \E outcome \in TimedOutcomes : ReloadAnswered(pos, outcome)
    \/ \E pos \in ConfigPositions : \E config \in BackendConfigs : ConfigLoaded(pos, config)
    \/ \E pos \in ConfigPositions : ConfigFailed(pos)

ConfigSpec == ConfigInit /\ [][ConfigNext]_vars

-----------------------------------------------------------------------------
(* AdminApp: the connectivity tests *)

\* The admin page with camera fragments on it and no test started.
TestInit ==
    /\ CaptureParked
    /\ MultiParked
    /\ form = InitForm
    /\ fragments \in {loadCameraFragments(ArrayStorage(cameras)) :
                        cameras \in SeqsUpTo(StoredCameras, MaxCameras)}
    /\ calls = EmptyBag
    /\ alast = OtherAdminStep
    /\ TestsParked
    /\ FormsParked
    /\ RestartParked

TestFrame ==
    UNCHANGED <<captureVars, detectVars, logVars, multi, multiStarts, multiStops, mlast, form,
                fragments, calls, alast, restart, clast>>

\* A test as it waits for its endpoint: badge loading, button disabled.
testStarted == [badge |-> setBadge("loading"), disabled |-> TRUE, waiting |-> TRUE]

\* A test after its finally block, with the last badge state it set.
testFinished(state) == [badge |-> setBadge(state), disabled |-> FALSE, waiting |-> FALSE]

\* testAI, testMQTT, testRTSP up to the await of fetchWithTimeout.
TestClick(test) ==
    /\ ~tests[test].disabled
    /\ tests' = [tests EXCEPT ![test] = testStarted]
    /\ tlast' = TestStep("started", test, <<"loading">>)
    /\ UNCHANGED storage
    /\ TestFrame

\* testAI, testMQTT, testRTSP from the answer, or the exception, to the end of
\* the finally block.
TestAnswered(test, outcome) ==
    /\ tests[test].waiting
    /\ tests' = [tests EXCEPT ![test] = testFinished(testBadge(test, outcome))]
    /\ tlast' = TestStep("finished", test, <<testBadge(test, outcome)>>)
    /\ UNCHANGED storage
    /\ TestFrame

\* testCameras up to the await of fetchWithTimeout, or to its end when no
\* camera is configured; saveCamerasConfiguration writes the storage.
CamerasTestClick ==
    /\ ~tests["cameras"].disabled
    /\ storage' = saveCamerasConfiguration(fragments)
    /\ IF Len(fragments) = 0
       THEN /\ tests' = [tests EXCEPT !["cameras"] = testFinished("info")]
            /\ tlast' = TestStep("finished", "cameras", <<"loading", "info">>)
       ELSE /\ tests' = [tests EXCEPT !["cameras"] = testStarted]
            /\ tlast' = TestStep("started", "cameras", <<"loading">>)
    /\ TestFrame

\* testCameras from the answer, or the exception, to the end of the finally
\* block.
CamerasTestAnswered(answer) ==
    /\ tests["cameras"].waiting
    /\ tests' = [tests EXCEPT !["cameras"] = testFinished(testCamerasBadge(answer))]
    /\ tlast' = TestStep("finished", "cameras", <<testCamerasBadge(answer)>>)
    /\ UNCHANGED storage
    /\ TestFrame

TestStart == \E test \in DOMAIN TestOutcomes : TestClick(test)

TestDone ==
    \E test \in DOMAIN TestOutcomes : \E outcome \in TestOutcomes[test] :
        TestAnswered(test, outcome)

CamerasTestDone == \E answer \in CamerasAnswers(Len(fragments)) : CamerasTestAnswered(answer)

TestNext ==
    \/ TestStart
    \/ TestDone
    \/ CamerasTestClick
    \/ CamerasTestDone

TestSpec == TestInit /\ [][TestNext]_vars

-----------------------------------------------------------------------------
(* AdminApp: restartApplication *)

RestartInit ==
    /\ CaptureParked
    /\ MultiParked
    /\ ConfigParked
    /\ TestsParked
    /\ FormsParked
    /\ restart = InitRestart

RestartFrame ==
    UNCHANGED <<captureVars, detectVars, logVars, multiVars, form, fragments, calls, alast, tests,
                tlast, clast>>

\* The health attempt waitForServerBack sends when its loop condition holds
\* at elapsed seconds.
healthAttempt(r, elapsed) ==
    [r EXCEPT !.pc = "health", !.step = "polling", !.elapsed = elapsed,
              !.attempts = @ + 1, !.sent = @ + 1]

\* waitForServerBack returned false: the warning is logged and the finally
\* block enables the button.
gaveUp(r, elapsed) ==
    [r EXCEPT !.pc = "idle", !.step = "gave_up", !.elapsed = elapsed,
              !.warned = TRUE, !.disabled = FALSE]

\* The head of the while loop of waitForServerBack.
waitLoop(r, elapsed) ==
    IF keepWaiting(elapsed) THEN healthAttempt(r, elapsed) ELSE gaveUp(r, elapsed)

\* Click on restart-app: after the confirmation the button is disabled and
\* the POST is sent; a declined confirmation returns at once.
RestartClick(confirmed) ==
    /\ restart.pc = "idle"
    /\ ~restart.disabled
    /\ restart' = IF confirmed
                  THEN [InitRestart EXCEPT !.pc = "post", !.step = "post_sent",
                                           !.disabled = TRUE, !.sent = 1]
                  ELSE [restart EXCEPT !.step = "declined"]
    /\ RestartFrame

\* The POST of /api/admin/restart settles: response.ok starts the wait, whose
\* first attempt is sent at second 0; anything else reaches the catch and the
\* finally block.  backAt is the second from which /api/metrics answers ok.
RestartPostDone(ok, backAt) ==
    /\ restart.pc = "post"
    /\ restart' = IF ok
                  THEN waitLoop([restart EXCEPT !.postOk = TRUE, !.backAt = backAt], 0)
                  ELSE [restart EXCEPT !.pc = "idle", !.step = "post_failed",
                                       !.disabled = FALSE]
    /\ RestartFrame

\* A health attempt settles after duration seconds: at AttemptTimeout it was
\* aborted, before that it was answered, ok if the server is back by then.
\* An ok answer ends the wait and reloads the page; anything else starts the
\* pause.
HealthAnswered(duration) ==
    LET now == restart.elapsed + duration IN
    /\ restart.pc = "health"
    /\ restart' = IF duration < AttemptTimeout /\ now >= restart.backAt
                  THEN [restart EXCEPT !.pc = "reloaded", !.step = "reloaded",
                                       !.elapsed = now, !.healthOk = TRUE,
                                       !.reloaded = TRUE, !.disabled = FALSE]
                  ELSE [restart EXCEPT !.pc = "sleep", !.step = "attempt_failed",
                                       !.elapsed = now]
    /\ RestartFrame

\* The pause between two attempts ends and the loop condition is read again.
SleepDone ==
    /\ restart.pc = "sleep"
    /\ restart' = waitLoop(restart, restart.elapsed + RetryDelay)
    /\ RestartFrame

RestartAsked == \E confirmed \in BOOLEAN : RestartClick(confirmed)

RestartAnswered == \E ok \in BOOLEAN : \E backAt \in BackAtValues : RestartPostDone(ok, backAt)

HealthDone == \E duration \in 0..AttemptTimeout : HealthAnswered(duration)

RestartNext ==
    \/ RestartAsked
    \/ RestartAnswered
    \/ HealthDone
    \/ SleepDone

\* fetchWithTimeout settles every attempt within its timeout and the timer of
\* the pause fires.
RestartSpec ==
    /\ RestartInit
    /\ [][RestartNext]_vars
    /\ WF_vars(HealthDone)
    /\ WF_vars(SleepDone)

-----------------------------------------------------------------------------
(* AdminApp: the camera fragments *)

\* The admin page before its configuration is loaded, over any stored list.
CamerasInit ==
    /\ CaptureParked
    /\ storage \in StorageValues
    /\ multi = InitMulti
    /\ multiStarts = EmptyBag
    /\ multiStops = EmptyBag
    /\ mlast = MultiStep("other", <<>>)
    /\ ConfigParked
    /\ TestsParked
    /\ RestartParked
    /\ FormsParked

CamerasFrame ==
    UNCHANGED <<captureVars, detectVars, logVars, multi, multiStarts, multiStops, mlast, form, calls,
                alast, tests, tlast, restart>>

\* loadConfiguration reaches loadCamerasConfiguration.
LoadCameras ==
    /\ fragments' = loadCameraFragments(storage)
    /\ clast' = CameraStep("loaded", "-", <<>>, 0)
    /\ UNCHANGED storage
    /\ CamerasFrame

\* Click on add-camera.
AddCamera ==
    /\ Len(fragments) < MaxCameras
    /\ fragments' = addCameraConfig(fragments)
    /\ clast' = CameraStep(IF fragments' = fragments THEN "add_refused" ELSE "added",
                           NewFragment(Len(fragments) + 1).id, <<>>, 0)
    /\ UNCHANGED storage
    /\ CamerasFrame

\* Click on the remove button of a fragment, or a call with any other id.
RemoveCamera(id) ==
    LET removed == removeCameraConfig(fragments, storage, id) IN
    /\ fragments' = removed.fragments
    /\ storage' = removed.storage
    /\ clast' = CameraStep(IF \E i \in DOMAIN fragments : fragments[i].id = id
                           THEN "removed" ELSE "remove_missing", id, <<>>, 0)
    /\ CamerasFrame

\* Confirmed click on clear-cameras: clearExistingCameras, clearCamerasStorage.
ClearCameras ==
    /\ fragments' = <<>>
    /\ storage' = NoStorage
    /\ clast' = CameraStep("cleared", "-", <<>>, 0)
    /\ CamerasFrame

\* The administrator changes the name or the mode of a fragment.
EditCamera(i, key, text) ==
    /\ i \in DOMAIN fragments
    /\ fragments' = [fragments EXCEPT ![i][key] = text]
    /\ clast' = CameraStep("edited", fragments[i].id, <<>>, 0)
    /\ UNCHANGED storage
    /\ CamerasFrame

\* saveCamerasConfiguration as saveConfiguration and testCameras call it.
SaveCameras ==
    /\ storage' = saveCamerasConfiguration(fragments)
    /\ clast' = CameraStep("saved", "-", <<>>, 0)
    /\ UNCHANGED fragments
    /\ CamerasFrame

RemoveAnyCamera == \E id \in CameraIds : RemoveCamera(id)

EditAnyCamera ==
    \E i \in 1..MaxCameras : \E key \in DOMAIN CameraTexts : \E text \in CameraTexts[key] :
        EditCamera(i, key, text)

CamerasNext ==
    \/ LoadCameras
    \/ AddCamera
    \/ RemoveAnyCamera
    \/ ClearCameras
    \/ EditAnyCamera
    \/ SaveCameras

CamerasSpec == CamerasInit /\ [][CamerasNext]_vars

-----------------------------------------------------------------------------
(* AdminApp: applyCameraInterval *)

\* The admin page with camera fragments on it and no request in flight.
IntervalInit ==
    /\ CaptureParked
    /\ MultiParked
    /\ form = InitForm
    /\ fragments \in {loadCameraFragments(ArrayStorage(cameras)) :
                        cameras \in SeqsUpTo(StoredCameras, MaxCameras)}
    /\ calls = EmptyBag
    /\ alast = OtherAdminStep
    /\ TestsParked
    /\ RestartParked
    /\ FormsParked

IntervalFrame ==
    UNCHANGED <<captureVars, detectVars, logVars, multiVars, form, fragments, alast, tests, tlast,
                restart>>

\* Click on an apply button, or a call with any other id, with text in the
\* first input named <cameraId>_analysis_interval: the POST is sent when the
\* input exists and parseFloat of its value is within the bounds.
ApplyCameraInterval(cameraId, text) ==
    LET intervalValue == parseFloat(text) IN
    /\ BagCardinality(calls) < MaxCalls
    /\ IF HasFragment(fragments, cameraId) /\ intervalAccepted(intervalValue)
       THEN /\ calls' = Put(calls, "interval_post")
            /\ clast' = CameraStep("interval_posted", cameraId, text, intervalValue.tenths)
       ELSE /\ calls' = calls
            /\ clast' = CameraStep("interval_rejected", cameraId, text, 0)
    /\ IntervalFrame

\* The POST of /api/camera/interval settles: the handlers log and repaint the
\* button.
IntervalAnswered(outcome) ==
    /\ At(calls, "interval_post") > 0
    /\ calls' = Take(calls, "interval_post")
    /\ clast' = CameraStep("interval_answered", "-", <<>>, 0)
    /\ IntervalFrame

ApplyInterval ==
    \E cameraId \in CameraIds : \E text \in IntervalTexts : ApplyCameraInterval(cameraId, text)

IntervalDone == \E outcome \in PostOutcomes : IntervalAnswered(outcome)

\* The apply buttons next to the add and remove buttons of the fragments.
IntervalNext ==
    \/ ApplyInterval
    \/ IntervalDone
    \/ AddCamera
    \/ RemoveAnyCamera

IntervalSpec == IntervalInit /\ [][IntervalNext]_vars

-----------------------------------------------------------------------------
(* IActionApp: the detections *)

\* The capture page as its constructor leaves it: loadDetections in flight.
DetectInit ==
    /\ CaptureInit
    /\ serverCapturing = FALSE
    /\ MultiParked
    /\ AdminParked
    /\ detect = loadDetections(InitDetect, FALSE)
    /\ dlast = OtherDetectStep
    /\ LogParked

DetectFrame == UNCHANGED <<captureVars, multiVars, adminVars, logVars>>

\* Click on the add button: showAddDetectionModal.
ShowAddModal ==
    /\ detect' = [detect EXCEPT !.editDetectionId = 0, !.modalOpen = TRUE]
    /\ dlast' = DetectStep("add_shown", FALSE, "-", 0, NoBody)
    /\ DetectFrame

\* Click on the edit button of a listed detection: editDetection.
EditClick(detectionId) ==
    /\ HasDetection(detect.detections, detectionId)
    /\ detect' = [detect EXCEPT !.editDetectionId = detectionId, !.modalOpen = TRUE]
    /\ dlast' = DetectStep("edit_shown", FALSE, "-", detectionId, NoBody)
    /\ DetectFrame

\* The user dismisses the modal.
CloseModal ==
    /\ detect.modalOpen
    /\ detect' = [detect EXCEPT !.modalOpen = FALSE]
    /\ dlast' = DetectStep("dismissed", FALSE, "-", 0, NoBody)
    /\ DetectFrame

\* What the backend does with a save it answers OK.
backendSaved(d, body) ==
    IF d.editDetectionId = 0
    THEN [d EXCEPT !.backend = created(@, d.nextId, body), !.nextId = @ + 1]
    ELSE [d EXCEPT !.backend = patched(@, d.editDetectionId, body)]

\* Click on save-detection with the three inputs as given: saveDetection up
\* to its fetch.  The backend answers OK, and has then applied the request,
\* or not OK; a PATCH of a detection it does not hold is not OK.
SaveClick(nameText, phraseText, webhookText, ok) ==
    LET name == trim(nameText)
        phrase == trim(phraseText)
        webhookUrl == trim(webhookText)
        editId == detect.editDetectionId
        body == requestBody(editId, name, phrase, webhookUrl)
        sent == [detect EXCEPT !.requests = @ \cup {Request("save", ok, <<>>, FALSE)}]
    IN  /\ detect.modalOpen
        /\ Cardinality(detect.requests) < MaxRequests
        /\ ok => IF editId = 0 THEN detect.nextId <= MaxDetections
                 ELSE HasDetection(detect.backend, editId)
        /\ IF saveDetectionValid(editId, name, phrase, webhookUrl)
           THEN /\ detect' = IF ok THEN backendSaved(sent, body) ELSE sent
                /\ dlast' = DetectStep("save_sent", TRUE,
                                       IF editId = 0 THEN "POST" ELSE "PATCH", editId, body)
           ELSE /\ ~ok
                /\ detect' = detect
                /\ dlast' = DetectStep("save_rejected", FALSE, "-", 0, NoBody)
        /\ DetectFrame

\* saveDetection from the answer to its next await: response.ok hides the
\* modal and starts loadDetections; anything else only logs.
SaveAnswered(request) ==
    /\ request \in detect.requests
    /\ request.kind = "save"
    /\ LET answered == [detect EXCEPT !.requests = @ \ {request}] IN
       IF request.ok
       THEN /\ detect' = loadDetections([answered EXCEPT !.modalOpen = FALSE], TRUE)
            /\ dlast' = DetectStep("save_ok", TRUE, "GET", 0, NoBody)
       ELSE /\ detect' = answered
            /\ dlast' = DetectStep("save_failed", FALSE, "-", 0, NoBody)
    /\ DetectFrame

\* loadDetections from its answer: the list received replaces the local one,
\* or the request failed and the error is logged; a saveDetection awaiting it
\* then resets editDetectionId.
RefreshAnswered(request, ok) ==
    /\ request \in detect.requests
    /\ request.kind = "get"
    /\ detect' = [detect EXCEPT
                     !.requests = @ \ {request},
                     !.detections = IF ok THEN request.snapshot ELSE @,
                     !.refreshFailed = IF ok THEN @ ELSE TRUE,
                     !.editDetectionId = IF request.awaited THEN 0 ELSE @]
    /\ dlast' = DetectStep(IF request.awaited THEN "save_done" ELSE "refreshed",
                           FALSE, "-", 0, NoBody)
    /\ DetectFrame

\* Click on the delete button of a listed detection: removeDetection up to its
\* fetch, or its return when the confirmation is declined.
RemoveClick(detectionId, confirmed, ok) ==
    /\ HasDetection(detect.detections, detectionId)
    /\ Cardinality(detect.requests) < MaxRequests
    /\ ok => (confirmed /\ HasDetection(detect.backend, detectionId))
    /\ IF confirmed
       THEN /\ detect' = [detect EXCEPT
                             !.requests = @ \cup {Request("delete", ok, <<>>, FALSE)},
                             !.backend = IF ok THEN deleted(@, detectionId) ELSE @]
            /\ dlast' = DetectStep("delete_sent", TRUE, "DELETE", detectionId, NoBody)
       ELSE /\ detect' = detect
            /\ dlast' = DetectStep("delete_declined", FALSE, "-", 0, NoBody)
    /\ DetectFrame

\* removeDetection from its answer: response.ok starts loadDetections without
\* awaiting it.
RemoveAnswered(request) ==
    /\ request \in detect.requests
    /\ request.kind = "delete"
    /\ LET answered == [detect EXCEPT !.requests = @ \ {request}] IN
       IF request.ok
       THEN /\ detect' = loadDetections(answered, FALSE)
            /\ dlast' = DetectStep("delete_ok", TRUE, "GET", 0, NoBody)
       ELSE /\ detect' = answered
            /\ dlast' = DetectStep("delete_failed", FALSE, "-", 0, NoBody)
    /\ DetectFrame

DetectionIds == 1..MaxDetections

EditShown == \E detectionId \in DetectionIds : EditClick(detectionId)

SaveDetection ==
    \E nameText \in NameTexts : \E phraseText \in PhraseTexts :
        \E webhookText \in WebhookTexts : \E ok \in BOOLEAN :
            SaveClick(nameText, phraseText, webhookText, ok)

SaveDone == \E request \in detect.requests : SaveAnswered(request)

RefreshDone == \E request \in detect.requests : \E ok \in BOOLEAN : RefreshAnswered(request, ok)

RemoveDetection ==
    \E detectionId \in DetectionIds : \E confirmed \in BOOLEAN : \E ok \in BOOLEAN :
        RemoveClick(detectionId, confirmed, ok)

RemoveDone == \E request \in detect.requests : RemoveAnswered(request)

DetectNext ==
    \/ ShowAddModal
    \/ EditShown
    \/ CloseModal
    \/ SaveDetection
    \/ SaveDone
    \/ RefreshDone
    \/ RemoveDetection
    \/ RemoveDone

DetectSpec == DetectInit /\ [][DetectNext]_vars

-----------------------------------------------------------------------------
(* Log levels: page loads, the level selector and addLog *)

LogInit ==
    /\ CaptureParked
    /\ MultiParked
    /\ AdminParked
    /\ LogParked

LogFrame == UNCHANGED <<captureVars, multiVars, adminVars, detectVars>>

\* The capture page is loaded with a log parameter: the constructor sets
\* "info" and init calls initLogLevelFromUrl.
AppLoaded(param, throws) ==
    LET loaded == initLogLevelFromUrl(param, logs.LOG_LEVEL, throws) IN
    /\ logs' = [logs EXCEPT !.appLogLevel = loaded.logLevel, !.LOG_LEVEL = loaded.stored]
    /\ llast' = LogStep("loaded", "app", "-", FALSE)
    /\ LogFrame

\* The admin page is loaded with a log parameter.
AdminLoaded(param, throws) ==
    LET loaded == initLogLevelFromUrl(param, logs.ADMIN_LOG_LEVEL, throws) IN
    /\ logs' = [logs EXCEPT !.adminLogLevel = loaded.logLevel,
                            !.ADMIN_LOG_LEVEL = loaded.stored]
    /\ llast' = LogStep("loaded", "admin", "-", FALSE)
    /\ LogFrame

\* Change of log-level-select on the admin page: a value found in the table
\* becomes the level and is stored, and the change is logged as "info".
LevelSelected(value) ==
    LET lvl == toLowerCase(IF value = "" THEN "info" ELSE value) IN
    /\ IF inLogLevels(lvl)
       THEN /\ logs' = [logs EXCEPT !.adminLogLevel = lvl, !.ADMIN_LOG_LEVEL = lvl]
            /\ llast' = LogStep("selected", "admin", "info", shouldLog(lvl, "info"))
       ELSE /\ logs' = logs
            /\ llast' = LogStep("select_ignored", "admin", "-", FALSE)
    /\ LogFrame

\* addLog(message, type) of either controller.
AddLog(controller, type) ==
    /\ logs' = logs
    /\ llast' = LogStep("logged", controller, type,
                        shouldLog(IF controller = "app" THEN logs.appLogLevel
                                  ELSE logs.adminLogLevel, type))
    /\ LogFrame

AppLoad == \E param \in LogParams : \E throws \in BOOLEAN : AppLoaded(param, throws)

AdminLoad == \E param \in LogParams : \E throws \in BOOLEAN : AdminLoaded(param, throws)

SelectLevel == \E value \in SelectValues : LevelSelected(value)

LogMessage == \E controller \in {"app", "admin"} : \E type \in LogTypes : AddLog(controller, type)

LogNext ==
    \/ AppLoad
    \/ AdminLoad
    \/ SelectLevel
    \/ LogMessage

LogSpec == LogInit /\ [][LogNext]_vars

-----------------------------------------------------------------------------
(* Steps, recognised by the invocation that leaves its await *)

\* A status-loop invocation consumes a parsed capture-status response.
PollStep(is_capturing) ==
    At(ticks', statusReply(is_capturing)) < At(ticks, statusReply(is_capturing))

\* An updateSensorValues invocation leaves its metrics await.
MetricsStep == At(ticks', "metrics") < At(ticks, "metrics")

\* A startCapture invocation leaves its config await.
ConfigStep == At(starts', "config") < At(starts, "config")

\* A startCapture invocation sends POST /api/start_capture.
StartRequestStep == At(starts', "start") > At(starts, "start")

\* A startCapture invocation handles an OK response / a failure.
StartOkStep == At(starts', "start_ok") < At(starts, "start_ok")
StartFailedStep ==
    /\ At(starts', "start") < At(starts, "start")
    /\ At(starts', "start_ok") = At(starts, "start_ok")

\* A stopCapture invocation handles an OK response / a failure.
StopOkStep == At(stops', "stop_ok") < At(stops, "stop_ok")
StopFailedStep ==
    /\ At(stops', "stop") < At(stops, "stop")
    /\ At(stops', "stop_ok") = At(stops, "stop_ok")

\* Start and stop requests that were sent and whose outcome is not yet handled.
StartRequests == At(starts, "start") + At(starts, "start_ok")
StopRequests == At(stops, "stop") + At(stops, "stop_ok")

-----------------------------------------------------------------------------
(* Properties *)

\* C1: when a poll response with is_capturing = true is processed while
\* captureInProgress is false, the step sets isCapturing and
\* captureInProgress, shows the stream toggle, hides the "no capture"
\* placeholder and leaves the video element's source as it was.
C1_PollOffToOn ==
    [][(PollStep(TRUE) /\ ~ui.captureInProgress) =>
          /\ ui'.isCapturing /\ ui'.captureInProgress
          /\ ui'.toggleDisplay = "block"
          /\ ui'.noCaptureDisplay = "none"
          /\ ui'.videoSrc = ui.videoSrc]_vars

C1_Witness ==
    /\ last.step = "poll_on"
    /\ ui.isCapturing /\ ui.captureInProgress
    /\ ui.toggleDisplay = "block" /\ ui.noCaptureDisplay = "none"
    /\ ui.videoSrc = ""

\* C2: when a poll response with is_capturing = false is processed while
\* captureInProgress is true, the step clears isCapturing and
\* captureInProgress, empties the video source, clears isVideoStreamVisible
\* and hides the stream toggle.
C2_PollOnToOff ==
    [][(PollStep(FALSE) /\ ui.captureInProgress) =>
          /\ ~ui'.isCapturing /\ ~ui'.captureInProgress
          /\ ui'.videoSrc = ""
          /\ ~ui'.isVideoStreamVisible
          /\ ui'.toggleDisplay = "none"]_vars

C2_Witness ==
    /\ last.step = "poll_off"
    /\ ~ui.isCapturing /\ ~ui.captureInProgress
    /\ ui.videoSrc = "" /\ ui.videoDisplay = "none"
    /\ ui.toggleDisplay = "none"

\* C3: no step disarms the status timer and no exception escapes a tick, so
\* after failed fetches a later tick again issues a metrics request.
C3_LoopKeepsPolling ==
    [][/\ statusInterval'
       /\ ~unhandledRejection'
       /\ (last'.step = "tick_after_failure" =>
              At(ticks', "metrics") = At(ticks, "metrics") + 1)]_vars

C3_Witness ==
    /\ last.step = "tick_after_failure"
    /\ statusInterval
    /\ At(ticks, "metrics") > 0

\* C4 (as claimed): whatever the outcome of the metrics fetch, the same tick
\* goes on to query the capture-status endpoint.
C4_StatusQueriedEveryTick ==
    [][MetricsStep => At(ticks', "status") = At(ticks, "status") + 1]_vars

\* C5: a start request is sent only if the config fetch did not fail and the
\* mode is not rtsp (a missing mode counts as rtsp) or an rtsp_url is set;
\* otherwise the invocation ends without a request, without touching the
\* loading indicator and without changing isCapturing / captureInProgress.
C5_ConfigAllowsStart ==
    /\ last.config.parsed
    /\ \/ last.config.capture_mode \notin {"", "rtsp"}
       \/ last.config.rtsp_url # ""

C6_StartOutcome ==
    [][/\ StartOkStep =>
             /\ ui'.isCapturing /\ ui'.captureInProgress
             /\ ui'.toggleDisplay = "block"
       /\ StartFailedStep =>
             /\ ui'.isCapturing = ui.isCapturing
             /\ ui'.captureInProgress = ui.captureInProgress
             /\ ui'.isVideoStreamVisible = ui.isVideoStreamVisible
             /\ ui'.toggleDisplay = ui.toggleDisplay]_vars

C6_Witness ==
    /\ last.step = "start_ok"
    /\ ui.isCapturing /\ ui.captureInProgress
    /\ ui.toggleDisplay = "block"

\* C7 (as claimed): the step that sends the start request shows the loading
\* indicator, the indicator then stays visible under every step interleaved
\* with the pending request (status-poll ticks included; completions of other
\* startCapture or stopCapture calls are left out of the claim), and the step
\* that handles the request's outcome hides it.
C7_LoadingWhileInFlight ==
    [][/\ StartRequestStep => ui'.loading
       /\ (/\ StartRequests > 0 /\ StartRequests' > 0
           /\ BagCardinality(starts) = 1 /\ BagCardinality(stops) = 0
           /\ ui.loading) => ui'.loading
       /\ (StartOkStep \/ StartFailedStep) => ~ui'.loading]_vars

\* C7 (amended): the step that sends the start request shows the loading
\* indicator and the step that handles its outcome hides it; in between only
\* a poll that detects an edge, or the completion of a stopCapture or of
\* another startCapture, hides it.
C7_LoadingShownThenHidden ==
    [][/\ StartRequestStep => ui'.loading
       /\ (StartOkStep \/ StartFailedStep) => ~ui'.loading
       /\ (StartRequests > 0 /\ ui.loading /\ ~ui'.loading) =>
             \/ StartOkStep \/ StartFailedStep
             \/ StopOkStep \/ StopFailedStep
             \/ PollStep(TRUE) /\ ~ui.captureInProgress
             \/ PollStep(FALSE) /\ ui.captureInProgress]_vars

C7_Witness ==
    /\ last.step = "poll_on"
    /\ StartRequests > 0
    /\ ~ui.loading

\* C8: handling an OK stop response clears isCapturing, captureInProgress and
\* isVideoStreamVisible, hides the toggle and empties the video source;
\* handling a non-OK response or an exception leaves them as they were; in
\* both cases the loading indicator is hidden afterwards.
C8_StopOutcome ==
    [][/\ StopOkStep =>
             /\ ~ui'.isCapturing /\ ~ui'.captureInProgress
             /\ ui'.toggleDisplay = "none"
             /\ ~ui'.isVideoStreamVisible
             /\ ui'.videoSrc = ""
             /\ ~ui'.loading
       /\ StopFailedStep =>
             /\ ui'.isCapturing = ui.isCapturing
             /\ ui'.captureInProgress = ui.captureInProgress
             /\ ui'.toggleDisplay = ui.toggleDisplay
             /\ ui'.isVideoStreamVisible = ui.isVideoStreamVisible
             /\ ui'.videoSrc = ui.videoSrc
             /\ ~ui'.loading]_vars

C8_Witness ==
    /\ last.step = "stop_ok"
    /\ ~ui.isCapturing /\ ~ui.captureInProgress
    /\ ui.toggleDisplay = "none" /\ ui.videoSrc = ""
    /\ ~ui.loading

\* C9 (as claimed): every start request that was sent eventually has its
\* outcome handled, which runs the cleanup that hides the loading indicator.
C9_StartEventuallyCleansUp ==
    (At(starts, "start") > 0) ~> (last.step \in {"start_ok", "start_failed"})

\* C10 (as claimed): at no time are two requests of the same button-triggered
\* action in flight.
C10_NoDoubleSubmission ==
    /\ StartRequests <= 1
    /\ StopRequests <= 1

\* C11: the page shows the backend's capture state b: both flags equal b, the
\* stream toggle is displayed exactly when b, start is disabled and stop
\* enabled exactly when b.
C11_Shows(b) ==
    /\ ui.isCapturing = b
    /\ ui.captureInProgress = b
    /\ (ui.toggleDisplay = "block") = b
    /\ ui.startDisabled = b
    /\ ui.stopDisabled = ~b

\* C11: from some point on the backend's is_capturing stays b and no
\* startCapture or stopCapture invocation is pending.
C11_Settled(b) ==
    /\ serverCapturing = b
    /\ BagCardinality(starts) = 0
    /\ BagCardinality(stops) = 0

\* C11: whatever raced before (late or out-of-order poll responses, start and
\* stop calls), once the backend's value stops changing and no user action is
\* pending, polls that keep succeeding bring the page to the state that shows
\* the backend's value, and it stays there.
C11_Convergence ==
    \A b \in BOOLEAN : <>[]C11_Settled(b) => <>[]C11_Shows(b)

C11_Witness ==
    /\ last.step = "poll_off"
    /\ C11_Settled(FALSE)
    /\ C11_Shows(FALSE)
    /\ BagCardinality(ticks) > 0

-----------------------------------------------------------------------------
(* Multi-camera capture: claims C12 to C15, under MultiSpec *)

\* C12: the list startMultiCapture posts starts with the main-camera
\* descriptor (id "main", mode "rtsp") and continues with one descriptor per
\* entry of the stored camera list, in stored order, so its length is one
\* plus the number of stored entries; when the stored value is absent or
\* cannot be parsed the list is the main descriptor alone.
C12_PostedCameraList ==
    [][mlast'.step = "start_posted" =>
        LET posted == mlast'.cameras
            stored == IF storage.state = "array" THEN storage.cameras ELSE <<>>
        IN  /\ At(multiStarts', Posted(posted)) = At(multiStarts, Posted(posted)) + 1
            /\ Len(posted) = 1 + Len(stored)
            /\ posted[1].id = "main"
            /\ posted[1].name = "Caméra Principale"
            /\ posted[1].mode = "rtsp"
            /\ \A i \in 1..Len(stored) : posted[i + 1] = cameraDescriptor(stored[i])]_vars

C12_Witness ==
    /\ mlast.step = "start_posted"
    /\ storage.state = "array"
    /\ Len(storage.cameras) = 2
    /\ storage.cameras[1] # storage.cameras[2]
    /\ Len(mlast.cameras) = 3
    /\ At(multiStarts, Posted(mlast.cameras)) = 1

\* C13: the cells setupCamerasGrid leaves for a result list.
C13_Cells(results) ==
    LET others == SelectSeq(results, LAMBDA r : r.camera_id # "main") IN
    [i \in 1..Len(others) |->
        [camera_id |-> others[i].camera_id, toggleDisabled |-> ~others[i].success]]

\* C13: the main camera's badge after a result list.
C13_MainBadge(results, before) ==
    LET mains == SelectSeq(results, LAMBDA r : r.camera_id = "main") IN
    IF mains = <<>> THEN before
    ELSE LET r == mains[Len(mains)] IN
         IF r.success THEN "Active" ELSE IF r.message # "" THEN r.message ELSE "Arrêtée"

\* C13: whatever the grid held before, after a successful start answer the
\* grid holds exactly one cell per result whose camera_id is not "main", in
\* result order, the cell's toggle disabled exactly when the result's success
\* is false; a result for "main" adds no cell and only updates the main
\* camera's status.
C13_GridFromResults ==
    [][\A post \in BagToSet(multiStarts) :
         \A answer \in StartMultiAnswers(post.cameras) :
            (StartMultiAnswer(post, answer) /\ answer.success /\ answer.hasResults) =>
                /\ multi'.grid = C13_Cells(answer.results)
                /\ \A i \in DOMAIN multi'.grid : multi'.grid[i].camera_id # "main"
                /\ multi'.mainBadge = C13_MainBadge(answer.results, multi.mainBadge)]_vars

C13_Witness ==
    /\ mlast.step = "start_ok"
    /\ Len(multi.grid) = 2
    /\ multi.grid[1] = [camera_id |-> "camera_1", toggleDisabled |-> FALSE]
    /\ multi.grid[2] = [camera_id |-> "porch", toggleDisabled |-> TRUE]
    /\ multi.mainBadge = "RTSP injoignable"

\* Suspended stopMultiCapture invocations, each awaiting its one request.
StopMultiRequests == BagCardinality(multiStops)

\* C14: stopMultiCapture sends exactly one POST /api/stop_capture, at the
\* click, whatever cameras are running, and no later step of it sends
\* another; after the stop succeeded the grid is in its empty state: no
\* camera cell, the main badge reads stopped, the main stream element has an
\* empty source and activeCameras is empty.
C14_StopResetsGrid ==
    [][/\ mlast'.step = "stop_posted" => StopMultiRequests' = StopMultiRequests + 1
       /\ mlast'.step # "stop_posted" => StopMultiRequests' <= StopMultiRequests
       /\ mlast'.step = "stop_ok" =>
            /\ StopMultiRequests' = StopMultiRequests - 1
            /\ multi'.grid = <<>>
            /\ multi'.mainBadge = "Arrêtée"
            /\ multi'.mainStreamSrc = ""
            /\ multi'.activeCameras = {}]_vars

C14_Witness ==
    /\ mlast.step = "stop_ok"
    /\ storage.state = "array"
    /\ Len(storage.cameras) = 2
    /\ multi.grid = <<>>
    /\ multi.mainBadge = "Arrêtée"
    /\ multi.mainStreamSrc = ""

\* C15: a stopMultiCapture that fails (non-2xx answer, network error,
\* success = false) leaves the stop-multi button enabled.
C15_StopFailureKeepsStopEnabled ==
    [][mlast'.step = "stop_failed" => ~multi'.stopDisabled]_vars

-----------------------------------------------------------------------------
(* AdminApp configuration: claims C16 and C17, under ConfigSpec *)

\* A step in which saveConfiguration ran up to its POST or its early return.
SubmitStep == alast'.step \in {"save_posted", "save_rejected"}
SavePosted == At(calls', "save_post") = At(calls, "save_post") + 1

\* C16: a rendered input fails its own type check: the URL input holds text
\* that is not a URL, or the number input holds text that is not a number
\* (a decimal comma is accepted) or a number outside its min and max.
C16_VisibleFieldFails(f) ==
    \/ f.captureSection = "rtsp" /\ f.DEFAULT_RTSP_URL = "ollama"
    \/ f.captureSection = "ha_polling"
          /\ f.HA_POLL_INTERVAL \in {<<"6", "1">>, <<"a", "b">>}

C16_OllamaUrlInvalid(f) == f.OLLAMA_URL = "ollama"

\* C16 as stated: saveConfiguration sends its POST exactly when neither the
\* Ollama URL is invalid nor a visible field fails its type check.
C16_PostIffValid ==
    [][SubmitStep =>
        (SavePosted <=> ~(C16_OllamaUrlInvalid(form) \/ C16_VisibleFieldFails(form)))]_vars

\* C16: saveConfiguration sends its POST exactly when validation passes, and
\* validation fails exactly when Ollama mode is selected and the Ollama URL is
\* non-empty and not a URL, or some visible field fails its own type check;
\* a missing API key, model name or broker address never blocks the save,
\* and a hidden field never blocks it whatever its value.
C16_PostIffValidInMode ==
    [][SubmitStep =>
        (SavePosted <=>
            ~(\/ form.AI_API_MODE = "ollama" /\ C16_OllamaUrlInvalid(form)
              \/ C16_VisibleFieldFails(form)))]_vars

C16_Witness ==
    /\ alast.step = "save_posted"
    /\ At(calls, "save_post") = 1
    /\ form.AI_API_MODE = "ollama"
    /\ form.OLLAMA_MODEL = ""
    /\ form.MQTT_BROKER = ""
    /\ form.captureSection = "ha_polling"
    /\ form.DEFAULT_RTSP_URL = "ollama"
    /\ form.HA_POLL_INTERVAL = <<"1", ".", "5">>

\* Steps of hotReload: it resumes from its POST, it resumes from the GET of
\* loadConfiguration.
ReloadResumes(pos) == At(calls', pos) < At(calls, pos)
ConfigRequested(pos) == At(calls', pos) > At(calls, pos)

\* C17: hotReload returns true exactly when the reload endpoint answered 2xx
\* with success = true, and in that case the GET of the configuration is
\* issued after the reload response and before hotReload returns; in every
\* other case (non-2xx, success = false, timeout, exception) it returns
\* false without reloading the form.  saveConfiguration calls hotReload only
\* after its POST returned success = true, and logs the manual-restart
\* warning exactly when hotReload returned false.
C17_HotReload ==
    [][/\ \A pos \in ReloadPositions :
            ReloadResumes(pos) =>
                IF alast'.answer = "success"
                THEN /\ ConfigRequested(reloadThenConfig[pos])
                     /\ alast'.returned = "-"
                ELSE /\ alast'.returned = "false"
                     /\ \A c \in ConfigPositions : ~ConfigRequested(c)
                     /\ form' = form
                     /\ alast'.warned <=> pos = "save_reload"
       /\ \A c \in ConfigPositions \ {"init_config"} :
            /\ ReloadResumes(c) => alast'.returned = "true" /\ ~alast'.warned
            /\ ConfigRequested(c) =>
                 \E pos \in ReloadPositions :
                    /\ ReloadResumes(pos)
                    /\ c = reloadThenConfig[pos]
                    /\ alast'.answer = "success"
       /\ alast'.returned = "true" =>
            \E c \in ConfigPositions \ {"init_config"} : ReloadResumes(c)
       /\ ConfigRequested("save_reload") =>
            ReloadResumes("save_post") /\ alast'.answer = "success"
       /\ ReloadResumes("save_post") /\ alast'.answer # "success" =>
            \A pos \in ReloadPositions : ~ConfigRequested(pos)]_vars

C17_Witness ==
    /\ alast.step = "reload_returned"
    /\ alast.returned = "true"
    /\ storage = ArrayStorage(<<>>)
    /\ form.AI_API_MODE = "ollama"
    /\ form.apiSection = "ollama"
    /\ calls = EmptyBag

-----------------------------------------------------------------------------
(* C18: connectivity tests and their badges *)

\* The badge states setBadge has a class for.
BadgeStates == {"ok", "error", "info", "loading", "idle"}

TestFinishes == tlast'.step = "finished"

\* C18: a step of a connectivity test sets "loading" first when it starts the
\* test, sets only states among ok, error, info, loading and idle, and when it
\* finishes the test leaves a badge that is not "loading" and the button
\* enabled.
C18_BadgeStates ==
    [][/\ tlast'.step = "started" => Head(tlast'.states) = "loading"
       /\ \A i \in DOMAIN tlast'.states : tlast'.states[i] \in BadgeStates
       /\ TestFinishes =>
             /\ tests'[tlast'.test].badge.state # "loading"
             /\ ~tests'[tlast'.test].disabled]_vars

-----------------------------------------------------------------------------
(* C19, C20: the wait for the server after a restart *)

RestartFlowEnded == restart.step \in {"gave_up", "reloaded"}

\* C19: when the health endpoint answers ok from second 60 on and not before,
\* a restart flow whose POST was OK ends with the page reloaded.
C19_BackAtSixty ==
    (restart.backAt = MaxSeconds /\ RestartFlowEnded) => restart.reloaded

-----------------------------------------------------------------------------
(* C21, C22, C23: the camera fragments and their stored list *)

UniqueIds(frags) ==
    \A i \in DOMAIN frags : \A j \in DOMAIN frags : i # j => frags[i].id # frags[j].id

AddStep == clast'.step \in {"added", "add_refused"}

\* C21: after every step no two fragments carry the same data-camera-id, and
\* an addCameraConfig whose computed id camera_{n+1} is already carried by a
\* fragment changes neither the fragments nor the stored list.
C21_UniqueFragmentIds ==
    [][/\ UniqueIds(fragments')
       /\ (AddStep /\ HasFragment(fragments, "camera_" \o ToString(Len(fragments) + 1)))
             => (fragments' = fragments /\ storage' = storage)]_vars

\* An add was refused because the id of the next count was taken.
C21_Witness ==
    /\ clast.step = "add_refused"
    /\ HasFragment(fragments, clast.id)
    /\ Len(fragments) >= 1

Without(frags, i) == SubSeq(frags, 1, i - 1) \o SubSeq(frags, i + 1, Len(frags))

\* C22: removeCameraConfig with the id of a fragment detaches exactly that
\* fragment and writes the remaining fragments, in their order, to the stored
\* list, where no entry keeps the id; with any other id it changes neither the
\* fragments nor the stored list.
C22_RemoveRewritesStorage ==
    [][clast'.step \in {"removed", "remove_missing"} =>
          IF HasFragment(fragments, clast'.id)
          THEN /\ \E i \in DOMAIN fragments :
                     /\ fragments[i].id = clast'.id
                     /\ fragments' = Without(fragments, i)
               /\ storage' = ArrayStorage(fragments')
               /\ ~HasFragment(storage'.cameras, clast'.id)
          ELSE /\ fragments' = fragments
               /\ storage' = storage]_vars

\* A fragment was removed while another one stayed.
C22_Witness ==
    /\ clast.step = "removed"
    /\ Len(fragments) >= 1
    /\ storage = ArrayStorage(fragments)

\* The fields of a fragment the round trip is asked to keep.
SameCamera(a, b) ==
    /\ a.id = b.id
    /\ a.cam_id = b.cam_id
    /\ a.cam_name = b.cam_name
    /\ a.cam_mode = b.cam_mode
    /\ a.cam_mode = "rtsp" => a.cam_rtsp_url = b.cam_rtsp_url
    /\ a.cam_mode = "ha_polling" => a.cam_ha_entity = b.cam_ha_entity

\* C23: saving the fragments and loading them again gives, camera by camera,
\* the same id, name, mode and mode-specific values, and saving the loaded
\* fragments writes what the first save wrote.
C23_RoundTrip ==
    LET saved == saveCamerasConfiguration(fragments)
        loaded == loadCameraFragments(saved)
    IN  /\ Len(loaded) = Len(fragments)
        /\ \A i \in DOMAIN fragments : SameCamera(fragments[i], loaded[i])
        /\ saveCamerasConfiguration(loaded) = saved

-----------------------------------------------------------------------------
(* C24, C25: the analysis interval of a camera *)

OnePointFive == <<"1", ",", "5">>

IntervalStep == clast'.step \in {"interval_posted", "interval_rejected"}

\* C24: validateField accepts "1,5" in a number field bounded by 0.1 and 60
\* as 1.5, and applyCameraInterval, reading "1,5" from the interval input of
\* an existing camera, posts the interval 1.5.
C24_CommaIsPeriod ==
    /\ validateField(Field("number", OnePointFive, <<"0", ".", "1">>, <<"6", "0">>, TRUE))
          = [ok |-> TRUE, value |-> <<"1", ".", "5">>]
    /\ (/\ clast.step \in {"interval_posted", "interval_rejected"}
        /\ clast.text = OnePointFive
        /\ HasFragment(fragments, clast.id))
          => (clast.step = "interval_posted" /\ clast.interval = 15)

\* C25: applyCameraInterval sends the POST of /api/camera/interval exactly
\* when the interval input of the camera exists and the number read from it
\* lies between 0.1 and 60, sends nothing else, and leaves the fragments, the
\* stored list and the configuration form as they are.
C25_IntervalPost ==
    [][IntervalStep =>
          /\ (calls' = Put(calls, "interval_post"))
                <=> (/\ HasFragment(fragments, clast'.id)
                     /\ ~parseFloat(clast'.text).nan
                     /\ parseFloat(clast'.text).tenths >= 1
                     /\ parseFloat(clast'.text).tenths <= 600)
          /\ calls' # Put(calls, "interval_post") => calls' = calls
          /\ fragments' = fragments
          /\ storage' = storage
          /\ form' = form]_vars

\* An interval within the bounds was posted for an existing camera.
C25_Witness ==
    /\ clast.step = "interval_posted"
    /\ clast.interval = 20
    /\ At(calls, "interval_post") = 1

-----------------------------------------------------------------------------
(* C26, C27, C30: saving detections and the local list *)

StartsWithScheme(webhookUrl) ==
    webhookUrl # <<>> /\ Head(webhookUrl) \in {"http://", "https://"}

SaveStep == dlast'.step \in {"save_sent", "save_rejected"}
CreateStep == SaveStep /\ detect.editDetectionId = 0
EditStep == SaveStep /\ detect.editDetectionId # 0

\* What every answer to a save does: an OK answer closes the modal and issues
\* the GET of the list, which saveDetection awaits before it resets
\* editDetectionId; any other answer leaves the modal and the local list alone.
SaveAnswerEffects ==
    /\ dlast'.step = "save_ok" =>
          /\ ~detect'.modalOpen
          /\ Request("get", TRUE, detect.backend, TRUE) \in detect'.requests
    /\ dlast'.step = "save_done" => detect'.editDetectionId = 0
    /\ dlast'.step = "save_failed" =>
          /\ detect'.modalOpen = detect.modalOpen
          /\ detect'.detections = detect.detections

\* C26: in create mode saveDetection sends a request exactly when the trimmed
\* name and phrase are not empty and the trimmed webhook URL is empty or
\* starts with http:// or https://; the request is POST /api/detections, and
\* its answer has the effects above.
C26_CreateCall ==
    [][/\ \A nameText \in NameTexts : \A phraseText \in PhraseTexts :
          \A webhookText \in WebhookTexts : \A ok \in BOOLEAN :
             (CreateStep /\ SaveClick(nameText, phraseText, webhookText, ok))
                => /\ dlast'.called <=>
                         /\ trim(nameText) # <<>>
                         /\ trim(phraseText) # <<>>
                         /\ trim(webhookText) = <<>> \/ StartsWithScheme(trim(webhookText))
                   /\ dlast'.called => (dlast'.method = "POST" /\ dlast'.id = 0)
       /\ SaveAnswerEffects]_vars

\* C26 as the code has it: the webhook URL, when not empty, has at least one
\* character after http:// or https://.
C26_CreateCallWithHost ==
    [][/\ \A nameText \in NameTexts : \A phraseText \in PhraseTexts :
          \A webhookText \in WebhookTexts : \A ok \in BOOLEAN :
             (CreateStep /\ SaveClick(nameText, phraseText, webhookText, ok))
                => /\ dlast'.called <=>
                         /\ trim(nameText) # <<>>
                         /\ trim(phraseText) # <<>>
                         /\ \/ trim(webhookText) = <<>>
                            \/ /\ StartsWithScheme(trim(webhookText))
                               /\ Len(trim(webhookText)) > 1
                   /\ dlast'.called => (dlast'.method = "POST" /\ dlast'.id = 0)
       /\ SaveAnswerEffects]_vars

\* A detection with a webhook was created and the list has been fetched again.
C26_Witness ==
    /\ dlast.step = "save_done"
    /\ detect.editDetectionId = 0
    /\ ~detect.modalOpen
    /\ Len(detect.backend) = 1
    /\ detect.backend[1].webhook_url = <<"http://", "x">>
    /\ detect.detections = detect.backend

\* C27: once no request is in flight, and no GET of the list has failed, the
\* local list is the backend's list.
C27_CacheMatchesBackend ==
    (detect.requests = {} /\ ~detect.refreshFailed) => detect.detections = detect.backend

\* C30: in edit mode saveDetection sends nothing when the trimmed name and
\* phrase are both empty; otherwise it sends PATCH /api/detections/{id} whose
\* body holds the name only if it is not empty and the phrase only if it is
\* not empty.
C30_EditCall ==
    [][\A nameText \in NameTexts : \A phraseText \in PhraseTexts :
       \A webhookText \in WebhookTexts : \A ok \in BOOLEAN :
          (EditStep /\ SaveClick(nameText, phraseText, webhookText, ok))
             => /\ (trim(nameText) = <<>> /\ trim(phraseText) = <<>>) => ~dlast'.called
                /\ dlast'.called =>
                      /\ dlast'.method = "PATCH"
                      /\ dlast'.id = detect.editDetectionId
                      /\ dlast'.body.name # Missing <=> trim(nameText) # <<>>
                      /\ dlast'.body.phrase # Missing <=> trim(phraseText) # <<>>]_vars

-----------------------------------------------------------------------------
(* C28: a poll that reports no change *)

\* C28: a capture-status answer that reports the value captureInProgress
\* already has leaves both flags, the stream flag, the video source, the
\* toggle button, the start and stop buttons and the loading indicator as
\* they were.
C28_SamePollChangesNothing ==
    [][\A is_capturing \in BOOLEAN :
          (PollStep(is_capturing) /\ is_capturing = ui.captureInProgress)
             => /\ ui'.isCapturing = ui.isCapturing
                /\ ui'.captureInProgress = ui.captureInProgress
                /\ ui'.isVideoStreamVisible = ui.isVideoStreamVisible
                /\ ui'.videoSrc = ui.videoSrc
                /\ ui'.videoDisplay = ui.videoDisplay
                /\ ui'.toggleDisplay = ui.toggleDisplay
                /\ ui'.startDisabled = ui.startDisabled
                /\ ui'.stopDisabled = ui.stopDisabled
                /\ ui'.loading = ui.loading]_vars

\* A poll reported capture still running while the user watched the stream.
C28_Witness ==
    /\ last.step = "poll_same"
    /\ ui.captureInProgress
    /\ ui.isVideoStreamVisible
    /\ ui.videoSrc = "/video_feed"

-----------------------------------------------------------------------------
(* C29: one stored entry, two readers *)

\* C29: the descriptors IActionApp posts for the stored cameras are those
\* testCameras derives from the same entries: the id is the entry's _id field
\* or else its key, the name its _name field or else "Caméra <id>", the mode
\* its _mode field or else "rtsp", with the fields of that mode and none of
\* the other mode.
C29_SameDescriptor ==
    mlast.step = "start_posted" =>
        LET stored == IF storage.state = "array" THEN storage.cameras ELSE <<>>
            posted == SubSeq(mlast.cameras, 2, Len(mlast.cameras))
        IN  /\ posted = camerasToTest(stored)
            /\ \A i \in DOMAIN stored :
                  LET entry == stored[i]
                      id == IF entry.cam_id # "" THEN entry.cam_id ELSE entry.id
                      mode == IF entry.cam_mode # "" THEN entry.cam_mode ELSE "rtsp"
                  IN  /\ posted[i].id = id
                      /\ posted[i].name = IF entry.cam_name # "" THEN entry.cam_name
                                          ELSE "Caméra " \o id
                      /\ posted[i].mode = mode
                      /\ mode = "rtsp" =>
                            /\ posted[i].ha_entity = Undefined
                            /\ entry.cam_rtsp_url # "" => posted[i].rtsp_url = entry.cam_rtsp_url
                      /\ mode = "ha_polling" =>
                            /\ posted[i].rtsp_url = Undefined
                            /\ entry.cam_ha_entity # "" =>
                                  posted[i].ha_entity = entry.cam_ha_entity

\* A list was posted for an entry without fields and an ha_polling entry
\* with an id of its own.
C29_Witness ==
    /\ mlast.step = "start_posted"
    /\ storage.state = "array"
    /\ Len(storage.cameras) = 2
    /\ storage.cameras[1].cam_id = ""
    /\ storage.cameras[2].cam_mode = "ha_polling"
    /\ mlast.cameras[3].id = "porch"
    /\ mlast.cameras[3].rtsp_url = Undefined

-----------------------------------------------------------------------------
(* C31: the two capture flags *)

\* C31: in every reachable state isCapturing = captureInProgress: init's
\* check, the status poll, startCapture and stopCapture write both flags to
\* the same value within one step, under every interleaving.
C31_FlagsAgree == ui.isCapturing = ui.captureInProgress

\* A poll turned both flags off while a start request and a stop request were
\* still in flight.
C31_Witness ==
    /\ last.step = "poll_off"
    /\ ~ui.isCapturing /\ ~ui.captureInProgress
    /\ StartRequests > 0
    /\ StopRequests > 0

-----------------------------------------------------------------------------
(* C32: the stream flag and the video element *)

\* C32: in every reachable state isVideoStreamVisible is true exactly when
\* the video element has a non-empty source, and a visible stream implies
\* captureInProgress.
C32_VisibleIffSource ==
    /\ ui.isVideoStreamVisible <=> ui.videoSrc # ""
    /\ ui.isVideoStreamVisible => ui.captureInProgress

-----------------------------------------------------------------------------
(* C33: the multi-capture buttons after a successful start *)

StartedButtons(m) == m.startDisabled /\ ~m.stopDisabled
StopMultiStep == mlast'.step \in {"stop_posted", "stop_ok", "stop_failed"}

\* C33: once startMultiCapture has handled an answer with success = true,
\* start-multi-capture is disabled and stop-multi-capture is enabled, and they
\* stay so until a stop is performed.
C33_StartedButtons ==
    [][/\ mlast'.step = "start_ok" => StartedButtons(multi')
       /\ (StartedButtons(multi) /\ ~StopMultiStep) => StartedButtons(multi')]_vars

-----------------------------------------------------------------------------
(* C34: adding a camera stays possible *)

\* C34: in every state reachable by add, remove, load and clear, calling
\* addCameraConfig appends a new fragment.  addCameraConfig reads nothing
\* but the fragments, so a call that appends nothing now appends nothing
\* however often it is repeated.
C34_AddAlwaysPossible == addCameraConfig(fragments) # fragments

-----------------------------------------------------------------------------
(* C35: the identifier of a camera in the three requests *)

\* C35: the camera_id that applyCameraInterval posts for a fragment is the id
\* under which testCameras and IActionApp.startMultiCapture send that camera,
\* also when the technical id field of the fragment was edited.
C35_SameCameraId ==
    clast.step = "interval_posted" =>
        \A i \in DOMAIN fragments :
            fragments[i].id = clast.id =>
                /\ clast.id = camerasToTest(fragments)[i].id
                /\ clast.id =
                      loadCamerasConfiguration(saveCamerasConfiguration(fragments))[i].id

-----------------------------------------------------------------------------
(* C36: a save rejected by validation *)

\* C36: a saveConfiguration that client-side validation rejects sends no
\* request and leaves the additional_cameras entry of local storage as it
\* was before the call.
C36_RejectedSaveChangesNothing ==
    [][alast'.step = "save_rejected" =>
          /\ calls' = calls
          /\ storage' = storage]_vars

-----------------------------------------------------------------------------
(* C37: the edit modal and saves still in flight *)

\* The modal is open only through showAddDetectionModal, which clears
\* editDetectionId, or showEditDetectionModal, which sets it: while it is
\* open with editDetectionId set, it is in edit mode for that detection.
EditModalOpen == detect.modalOpen /\ detect.editDetectionId # 0
ModalShownStep == dlast'.step \in {"add_shown", "edit_shown"}

\* C37: while the modal is open in edit mode for a detection, only the user
\* opening the modal again changes editDetectionId: no completion of an
\* earlier saveDetection resets it, so the next save is a PATCH of that
\* detection.
C37_EditModalKeepsId ==
    [][(EditModalOpen /\ ~ModalShownStep) =>
          /\ detect'.editDetectionId = detect.editDetectionId
          /\ \A nameText \in NameTexts, phraseText \in PhraseTexts,
                webhookText \in WebhookTexts, ok \in BOOLEAN :
                (/\ dlast'.step = "save_sent"
                 /\ SaveClick(nameText, phraseText, webhookText, ok))
                   => (dlast'.method = "PATCH" /\ dlast'.id = detect.editDetectionId)]_vars

-----------------------------------------------------------------------------
(* C38: log levels *)

StoredLevels == {"error", "warning", "info", "debug"}

\* rank(t), unknown types ranked as info.
rank(type) ==
    LET t == toLowerCase(type) IN
    IF t \in DOMAIN logLevels THEN logLevels[t] ELSE logLevels.info

\* C38: the logLevel of both controllers is always a key of the level table,
\* what the code writes to LOG_LEVEL and ADMIN_LOG_LEVEL is one of error,
\* warning, info, debug, and a message of type t is emitted exactly when
\* rank(t) <= rank(current level), unknown types ranked as info.
C38_LogLevels ==
    /\ logs.appLogLevel \in DOMAIN logLevels
    /\ logs.adminLogLevel \in DOMAIN logLevels
    /\ logs.LOG_LEVEL \in StoredLevels \cup {Undefined}
    /\ logs.ADMIN_LOG_LEVEL \in StoredLevels \cup {Undefined}
    /\ llast.step \in {"logged", "selected"} =>
          LET level == IF llast.controller = "app" THEN logs.appLogLevel
                       ELSE logs.adminLogLevel
          IN  llast.emitted <=> rank(IF llast.type = "" THEN "info" ELSE llast.type)
                                   <= rank(level)

====
